---- MODULE Spec2Model ----
(***************************************************************************)
(* Model of the cookie-notice scanner (scan.py): one target handed to the  *)
(* worker pool, Browser.scan_page's retry sequence, one WebpageScanner     *)
(* session per navigation attempt (scan thread), and the protocol event    *)
(* handlers that run concurrently with the scan thread while the tab is    *)
(* started.                                                                *)
(*                                                                         *)
(* Spec is the scan of one target.  The other specifications apply one     *)
(* part of the program to all inputs within the bounds: ClickSpec the      *)
(* click phase Browser.do_click, RuleSpec the filter matcher               *)
(* _is_rule_applicable, MergeSpec the merge of the notices in results.py,  *)
(* VisibleSpec is_node_visible, ModalSpec is_page_modal, SessionSpec the   *)
(* click session WebpageScanner.do_click, CoverSpec                        *)
(* find_clickables_in_node and FixedSpec _find_fixed_parent.               *)
(***************************************************************************)
EXTENDS Integers, Sequences, FiniteSets, TLC

VARIABLES
    pool,         \* state of the pool task: "submitted", "running", "returned", "raised", "joined"
    written,      \* result documents written by the completion callback
    returned,     \* the WebpageResult scan_page returned (meaningful once pool is "returned")
    webpage,      \* the Webpage object: protocol and url
    step,         \* position in scan_page: 0 = first _scan_page, k = k-th retry `if`
    attempts,     \* history: per _scan_page call of the retry sequence, the url given
                  \* to Page.navigate and how the attempt ended
    pc,           \* position of the scan thread
    tab,          \* "none", "created", "started", "stopped", "closed"
    result,       \* the WebpageResult of the current session
    scanner,      \* fields of the current WebpageScanner
    site,         \* index of the detection call site the thread is at
    exc,          \* the exception in flight (NoException if none)
    browser,      \* the browser as the session left it: script execution disabled, data
                  \* clean (cleared and not navigated since), origins whose storage was
                  \* cleared, Page.stopLoading called, and (until the next Page.navigate)
                  \* the domains observed in the previous session whose storage was
                  \* not cleared
    env           \* the page's side: navigation issued, each request's progress, load
                  \* event fired, the first request's id, protocol calls that raised

VARIABLES
    cookie_notices, \* result.cookie_notices of the result handed to Browser.do_click
    click_results,  \* Browser.do_click's dict: node_id -> click result
    clicks,         \* the Click instructions for which a click session was run
    cursor,         \* position of Browser.do_click's three nested loops
    call,         \* a call of one of the program's functions: its name and arguments
    ret           \* the value the call returned: <<v>>, or <<>> while it has not

\* the state of the pool, the browser and the scan session
scanvars == <<pool, written, returned, webpage, step, attempts, pc, tab, result,
              scanner, site, exc, browser, env>>

\* the state outside of the scan session
othervars == <<cookie_notices, click_results, clicks, cursor, call, ret>>

vars == <<scanvars, othervars>>

None == "None"

----------------------------------------------------------------------------
(* Bounds of the model *)

\* protocol calls that raise during one session
MaxFaults == 1
\* polls of 0.1 s that make up the load budget (300 in the program)
MaxPolls == 1

RequestIds == {"r1", "r2"}
Statuses == {200, 503}
ErrorTexts == {"net::ERR_FAILED"}

----------------------------------------------------------------------------
(* Constants of the program *)

FAILED_REASON_TIMEOUT == "Page.navigate timeout"
FAILED_REASON_STATUS_CODE == "status code"
FAILED_REASON_LOADING == "loading failed"

\* pychrome's exceptions: type(e).__name__ is name, str(e) is msg
CallMethodException == [name |-> "CallMethodException", msg |-> "calling method failed"]
TimeoutException == [name |-> "TimeoutException", msg |-> "Calling Page.navigate timeout"]
RuntimeException == [name |-> "RuntimeException", msg |-> "Tab has been stopped"]

\* what a protocol call without _timeout can raise, and one with _timeout
NoException == [name |-> None, msg |-> None]

CallExceptions == {CallMethodException, RuntimeException}
NavigateExceptions == CallExceptions \cup {TimeoutException}

----------------------------------------------------------------------------
(* Webpage *)

Url(protocol, subdomain) ==
    IF subdomain = None THEN protocol \o "://domain"
    ELSE protocol \o "://" \o subdomain \o ".domain"

Webpage == [protocol |-> "https", url |-> Url("https", None)]

set_protocol(w, protocol) == [protocol |-> protocol, url |-> Url(protocol, None)]

set_subdomain(w, subdomain) == [w EXCEPT !.url = Url(w.protocol, subdomain)]

remove_subdomain(w) == [w EXCEPT !.url = Url(w.protocol, None)]

----------------------------------------------------------------------------
(* WebpageResult *)

WebpageResult(w) ==
    [url |-> w.url,
     failed |-> FALSE, failed_reason |-> None, failed_exception |-> None,
     warnings |-> <<>>,
     stopped_waiting |-> FALSE, stopped_waiting_reason |-> None,
     requests |-> <<>>, responses |-> <<>>, redirects |-> <<>>,
     cookies |-> {}, html |-> None, language |-> None,
     is_cmp_defined |-> FALSE, cookie_notices |-> {}]

set_failed(r, reason, exception) ==
    [r EXCEPT !.failed = TRUE, !.failed_reason = reason, !.failed_exception = exception]

add_warning(r, method, e) ==
    [r EXCEPT !.warnings = Append(@, [method |-> method, exception |-> e.name])]

set_stopped_waiting(r, reason) ==
    [r EXCEPT !.stopped_waiting = TRUE, !.stopped_waiting_reason = reason]

add_request(r, url) == [r EXCEPT !.requests = Append(@, url)]

add_redirect(r, url, root_frame) ==
    [r EXCEPT !.redirects = Append(@, [url |-> url, root_frame |-> root_frame])]

add_response(r, url, status) ==
    [r EXCEPT !.responses = Append(@, [url |-> url, status |-> status])]

----------------------------------------------------------------------------
(* The remote protocol calls of the detection phase, in program order.     *)
(* guard is the except clause that encloses the call inside its helper:    *)
(* "none", "CallMethodException" or "Exception"; label is the 'method'     *)
(* field the helper's warning carries.                                     *)

Sites == <<
    [call |-> "DOM.getOuterHTML", helper |-> "_get_html_of_node", guard |-> "none", label |-> None],
    [call |-> "Runtime.evaluate", helper |-> "detect_language", guard |-> "Exception", label |-> "detect_language"],
    [call |-> "Runtime.evaluate", helper |-> "is_cmp_function_defined", guard |-> "none", label |-> None],
    [call |-> "Runtime.evaluate", helper |-> "find_cookie_notices_by_rules", guard |-> "none", label |-> None],
    [call |-> "Runtime.callFunctionOn", helper |-> "is_node_visible", guard |-> "CallMethodException", label |-> "is_node_visible"],
    [call |-> "Runtime.callFunctionOn", helper |-> "_get_properties_of_cookie_notice", guard |-> "CallMethodException", label |-> "_get_cookie_notice_properties"],
    [call |-> "Runtime.callFunctionOn", helper |-> "_find_fixed_parent", guard |-> "CallMethodException", label |-> "_find_fixed_parent"],
    [call |-> "Runtime.callFunctionOn", helper |-> "_find_full_width_parent", guard |-> "CallMethodException", label |-> "_find_full_width_parent"],
    [call |-> "Network.getAllCookies", helper |-> "_get_all_cookies", guard |-> "none", label |-> None]
>>

NSites == Len(Sites)

\* whether the except clause `guard` catches exception e
Catches(guard, e) ==
    \/ guard = "Exception"
    \/ guard = "CallMethodException" /\ e.name = "CallMethodException"

\* what the helper of site i stores in the result once its call is over;
\* ok is FALSE when the call raised and the helper's guard caught it
SiteEffect(r, i, ok) ==
    CASE Sites[i].helper = "_get_html_of_node" -> [r EXCEPT !.html = "html"]
      [] Sites[i].helper = "detect_language" -> IF ok THEN [r EXCEPT !.language = "en"] ELSE r
      [] Sites[i].helper = "is_cmp_function_defined" -> [r EXCEPT !.is_cmp_defined = TRUE]
      [] Sites[i].helper = "_get_properties_of_cookie_notice" -> [r EXCEPT !.cookie_notices = @ \cup {"rules"}]
      [] Sites[i].helper = "_find_fixed_parent" -> [r EXCEPT !.cookie_notices = @ \cup {"fixed_parent"}]
      [] Sites[i].helper = "_find_full_width_parent" -> [r EXCEPT !.cookie_notices = @ \cup {"full_width_parent"}]
      [] Sites[i].helper = "_get_all_cookies" -> [r EXCEPT !.cookies = @ \cup {"all"}]
      [] OTHER -> r

----------------------------------------------------------------------------
(* Initial state: one Webpage(rank, domain) submitted to the pool *)

\* ClickResult(): cookies is the set of the keys that were set; None stands
\* for Python's None in the two fields set after the click
ClickResult == [cookies |-> {}, new_pages |-> <<>>,
                cookie_notice_visible_after_click |-> None, is_page_modal |-> None]

\* the frame of the document Page.navigate loads, and a frame embedded in it
RootFrame == "root"
SubFrame == "sub"
FrameIds == {RootFrame, SubFrame}

NewScanner == [is_loaded |-> FALSE, requestId |-> None, loaded_urls |-> {}, waited |-> 0,
               callbacks |-> {}, recordRedirects |-> TRUE,
               recordNewPagesForClick |-> FALSE, waitForNavigatedEvent |-> FALSE,
               frameId |-> None, click_result |-> ClickResult]

NewBrowser == [script_disabled |-> FALSE, clean |-> FALSE, cleared_origins |-> {},
               stop_loading |-> FALSE, uncleared |-> {}]

\* the page's side also holds: whether the root frame is loading a document,
\* the number of the document in the root frame (0 is the one Page.navigate
\* asks for), the documents whose load event fired, the documents the root
\* frame began to load during the settle wait that follows a click, whether
\* the load event fired when the loop of _wait_for_load_event had just ended,
\* the events the page sent about frames and windows, the calls do_click made
\* on the tab, in order, and what the page answered when asked whether the
\* notice's node exists
NewEnv == [navigating |-> FALSE, request |-> [id \in RequestIds |-> "none"],
           load_fired |-> FALSE, first_request |-> None, faults |-> 0,
           loading |-> FALSE, document |-> 0, loaded |-> {}, settle_documents |-> {},
           after_wait |-> FALSE,
           page_events |-> 0, commands |-> <<>>, answers |-> <<>>]

ScanInit ==
    /\ pool = "submitted"
    /\ written = <<>>
    /\ returned = WebpageResult(Webpage)
    /\ webpage = Webpage
    /\ step = 0
    /\ attempts = <<>>
    /\ pc = "idle"
    /\ tab = "none"
    /\ result = WebpageResult(Webpage)
    /\ scanner = NewScanner
    /\ site = 0
    /\ exc = NoException
    /\ browser = NewBrowser
    /\ env = NewEnv

NoCall == [fn |-> None]

NoReturn == <<>>

\* Browser.do_click has not been entered
NoCursor == [at |-> "idle", t |-> 1, n |-> 1, c |-> 1]

ClickInit ==
    /\ cookie_notices = <<>>
    /\ click_results = <<>>
    /\ clicks = <<>>
    /\ cursor = NoCursor

Init ==
    /\ ScanInit
    /\ ClickInit
    /\ call = NoCall
    /\ ret = NoReturn

----------------------------------------------------------------------------
(* Worker pool *)

\* pool.apply_async(f_scan_page, args=(webpage, do_click), callback=f_page_scanned)
apply_async ==
    /\ pool = "submitted"
    /\ pool' = "running"
    /\ pc' = "scan_page"
    /\ UNCHANGED <<written, returned, webpage, step, attempts, tab, result,
                   scanner, site, exc, browser, env>>
    /\ UNCHANGED othervars

\* the document save_data writes for a result
Document(r) ==
    [url |-> r.url, failed |-> r.failed, failed_reason |-> r.failed_reason,
     failed_exception |-> r.failed_exception]

\* the completion callback, called with the value scan_page returned
f_page_scanned ==
    /\ pool = "returned"
    /\ written' = Append(written, Document(returned))
    /\ pool' = "joined"
    /\ UNCHANGED <<returned, webpage, step, attempts, pc, tab, result,
                   scanner, site, exc, browser, env>>
    /\ UNCHANGED othervars

\* the task raised: apply_async was given no error_callback, the exception
\* stays in the AsyncResult nobody reads, and pool.join() returns
task_raised ==
    /\ pool = "raised"
    /\ pool' = "joined"
    /\ UNCHANGED <<written, returned, webpage, step, attempts, pc, tab, result,
                   scanner, site, exc, browser, env>>
    /\ UNCHANGED othervars

----------------------------------------------------------------------------
(* Browser.scan_page and Browser._scan_page *)

\* retries after any failed attempt, whatever its reason
RetryCondition_anyFailure(r) == r.failed

RetryCondition(r) ==
    r.failed /\ (r.failed_reason = FAILED_REASON_LOADING \/ r.failed_reason = FAILED_REASON_TIMEOUT)

\* the mutation of the webpage that precedes the k-th retry
RetryWebpage(w, k) ==
    CASE k = 1 -> set_subdomain(w, "www")
      [] k = 2 -> set_protocol(remove_subdomain(w), "http")
      [] k = 3 -> set_subdomain(w, "www")

\* result = self._scan_page(webpage).get_result()
scan_page_first ==
    /\ pc = "scan_page"
    /\ step = 0
    /\ pc' = "_scan_page"
    /\ UNCHANGED <<pool, written, returned, webpage, step, attempts, tab, result,
                   scanner, site, exc, browser, env>>
    /\ UNCHANGED othervars

\* the three `if result.failed and (reason is loading or timeout)` statements
scan_page_retry ==
    /\ pc = "scan_page"
    /\ step \in 1..3
    /\ IF RetryCondition(result)
       THEN /\ webpage' = RetryWebpage(webpage, step)
            /\ pc' = "_scan_page"
            /\ step' = step
       ELSE /\ webpage' = webpage
            /\ pc' = "scan_page"
            /\ step' = step + 1
    /\ UNCHANGED <<pool, written, returned, attempts, tab, result,
                   scanner, site, exc, browser, env>>
    /\ UNCHANGED othervars

\* `if result.failed: return result` and the final `return result`
scan_page_return ==
    /\ pc = "scan_page"
    /\ step = 4
    /\ returned' = result
    /\ pool' = "returned"
    /\ pc' = "done"
    /\ UNCHANGED <<written, webpage, step, attempts, tab, result,
                   scanner, site, exc, browser, env>>
    /\ UNCHANGED othervars

\* tab = self.browser.new_tab(); page_scanner = WebpageScanner(tab, ...)
new_tab ==
    /\ pc = "_scan_page"
    /\ tab' = "created"
    /\ result' = WebpageResult(webpage)
    /\ scanner' = NewScanner
    /\ browser' = [NewBrowser EXCEPT !.uncleared = browser.uncleared]
    /\ env' = NewEnv
    /\ site' = 0
    /\ exc' = NoException
    /\ pc' = "_setup"
    /\ attempts' = Append(attempts, [url |-> None, outcome |-> "pending"])
    /\ UNCHANGED <<pool, written, returned, webpage, step>>
    /\ UNCHANGED othervars

\* self.browser.close_tab(tab): stops the tab if it is still started; the
\* WebpageScanner is dropped once get_result() has given its result
close_tab ==
    /\ pc = "close_tab"
    /\ tab' = "closed"
    /\ pc' = "scan_page"
    /\ step' = step + 1
    /\ scanner' = NewScanner
    /\ browser' = [NewBrowser EXCEPT
                      !.uncleared = scanner.loaded_urls \ browser.cleared_origins]
    /\ env' = NewEnv
    /\ site' = 0
    /\ attempts' = [attempts EXCEPT ![Len(attempts)].outcome =
                        IF RetryCondition(result) THEN "retry" ELSE "final"]
    /\ UNCHANGED <<pool, written, returned, webpage, result, exc>>
    /\ UNCHANGED othervars

\* an exception leaves scan, _scan_page (close_tab is skipped) and scan_page
scan_page_raise ==
    /\ pc = "raised"
    /\ pool' = "raised"
    /\ pc' = "done"
    /\ UNCHANGED <<written, returned, webpage, step, attempts, tab, result,
                   scanner, site, exc, browser, env>>
    /\ UNCHANGED othervars

----------------------------------------------------------------------------
(* WebpageScanner.scan: the scan thread *)

\* a protocol call of the session may raise
CanRaise == env.faults < MaxFaults

Raised == [env EXCEPT !.faults = @ + 1]

\* _clear_browser: cache, cookies, and the storage of every first-level
\* domain in loaded_urls
clear_browser(b, loaded_urls) ==
    [b EXCEPT !.clean = TRUE, !.cleared_origins = loaded_urls,
              !.uncleared = @ \ loaded_urls]

\* registers only the Network callbacks
RegisteredCallbacks_networkOnly ==
    {"Network.requestWillBeSent", "Network.responseReceived", "Network.loadingFailed"}

\* the callbacks _setup_tab sets on the tab before tab.start()
RegisteredCallbacks ==
    {"Network.requestWillBeSent", "Network.responseReceived", "Network.loadingFailed",
     "Page.loadEventFired", "Page.frameRequestedNavigation", "Page.frameStartedLoading",
     "Page.navigatedWithinDocument", "Page.windowOpen", "Page.javascriptDialogOpening"}

\* self._setup(): the fields, then _setup_tab (callbacks, tab.start(), the
\* enable calls); it lies outside scan's try block
_setup ==
    /\ pc = "_setup"
    /\ scanner' = [NewScanner EXCEPT !.callbacks = RegisteredCallbacks]
    /\ \/ /\ tab' = "started"
          /\ pc' = "_clear_browser"
          /\ UNCHANGED <<exc, env>>
       \/ \E e \in CallExceptions :
            /\ CanRaise
            /\ env' = Raised
            /\ tab' \in {"created", "started"}
            /\ exc' = e
            /\ pc' = "raised"
    /\ UNCHANGED <<pool, written, returned, webpage, step, attempts, result,
                   site, browser>>
    /\ UNCHANGED othervars

\* where an exception raised inside _navigate_and_wait lands: its own handler
\* catches TimeoutException, anything else reaches scan's `except Exception`
NavigateHandler(e) ==
    IF e.name = "TimeoutException"
    THEN /\ result' = set_failed(result, FAILED_REASON_TIMEOUT, e.name)
         /\ exc' = exc
         /\ pc' = "scan_check"
    ELSE /\ result' = result
         /\ exc' = e
         /\ pc' = "except"

\* self._clear_browser() at the start of _navigate_and_wait
navigate_clear_browser ==
    /\ pc = "_clear_browser"
    /\ \/ /\ browser' = clear_browser(browser, scanner.loaded_urls)
          /\ pc' = "navigate"
          /\ UNCHANGED <<result, exc, env>>
       \/ \E e \in CallExceptions :
            /\ CanRaise
            /\ env' = Raised
            /\ NavigateHandler(e)
            /\ browser' = browser
    /\ UNCHANGED <<pool, written, returned, webpage, step, attempts, tab,
                   scanner, site>>
    /\ UNCHANGED othervars

\* self.tab.Page.navigate(url=self.webpage.url, _timeout=15) is sent
navigate_call ==
    /\ pc = "navigate"
    /\ attempts' = [attempts EXCEPT ![Len(attempts)].url = webpage.url]
    /\ env' = [env EXCEPT !.navigating = TRUE, !.loading = TRUE]
    /\ browser' = [browser EXCEPT !.clean = FALSE, !.uncleared = {}]
    /\ pc' = "navigate_wait"
    /\ UNCHANGED <<pool, written, returned, webpage, step, tab, result,
                   scanner, site, exc>>
    /\ UNCHANGED othervars

\* Page.navigate returns or raises; then `if self.result.failed: return`
navigate_return ==
    /\ pc = "navigate_wait"
    /\ \/ /\ pc' = IF result.failed THEN "scan_check" ELSE "_wait_for_load_event"
          /\ UNCHANGED <<result, exc, env>>
       \/ \E e \in NavigateExceptions :
            /\ CanRaise
            /\ env' = Raised
            /\ NavigateHandler(e)
    /\ scanner' = [scanner EXCEPT !.waited = 0]
    /\ UNCHANGED <<pool, written, returned, webpage, step, attempts, tab,
                   site, browser>>
    /\ UNCHANGED othervars

\* compares with > instead of >=
LoadBudgetExceeded_strict(waited) == waited > MaxPolls

\* `waited >= load_event_timeout`, in polls
LoadBudgetExceeded(waited) == waited >= MaxPolls

\* one turn of `while not self._is_loaded and waited < load_event_timeout`
wait_for_load_event_poll ==
    /\ pc = "_wait_for_load_event"
    /\ IF ~scanner.is_loaded /\ scanner.waited < MaxPolls
       THEN /\ scanner' = [scanner EXCEPT !.waited = @ + 1]
            /\ pc' = pc
       ELSE /\ scanner' = scanner
            /\ pc' = "stopped_waiting"
    /\ UNCHANGED <<pool, written, returned, webpage, step, attempts, tab, result,
                   site, exc, browser, env>>
    /\ UNCHANGED othervars

\* where _wait_for_load_event returns to: _wait_for_load_event_and_js, or
\* do_click, which has set recordNewPagesForClick before it calls
AfterWaitForLoadEvent ==
    IF scanner.recordNewPagesForClick THEN "is_page_modal" ELSE "wait_js"

\* `if waited >= load_event_timeout:` set_stopped_waiting and Page.stopLoading
wait_for_load_event_end ==
    /\ pc = "stopped_waiting"
    /\ IF LoadBudgetExceeded(scanner.waited)
       THEN \/ /\ result' = set_stopped_waiting(result, "load event")
               /\ browser' = [browser EXCEPT !.stop_loading = TRUE]
               /\ env' = [env EXCEPT !.loading = FALSE]
               /\ pc' = AfterWaitForLoadEvent
               /\ exc' = exc
            \/ \E e \in CallExceptions :
               /\ CanRaise
               /\ env' = Raised
               /\ result' = set_stopped_waiting(result, "load event")
               /\ browser' = [browser EXCEPT !.stop_loading = TRUE]
               /\ exc' = e
               /\ pc' = "except"
       ELSE /\ pc' = AfterWaitForLoadEvent
            /\ UNCHANGED <<result, browser, exc, env>>
    /\ UNCHANGED <<pool, written, returned, webpage, step, attempts, tab,
                   scanner, site>>
    /\ UNCHANGED othervars

\* self.tab.wait(js_timeout), the end of _navigate_and_wait
wait_js ==
    /\ pc = "wait_js"
    /\ pc' = "scan_check"
    /\ UNCHANGED <<pool, written, returned, webpage, step, attempts, tab, result,
                   scanner, site, exc, browser, env>>
    /\ UNCHANGED othervars

\* `if self.result.failed: return self.result` in scan
scan_check ==
    /\ pc = "scan_check"
    /\ IF result.failed
       THEN pc' = "close_tab" /\ site' = site
       ELSE pc' = "detect" /\ site' = 1
    /\ UNCHANGED <<pool, written, returned, webpage, step, attempts, tab, result,
                   scanner, exc, browser, env>>
    /\ UNCHANGED othervars

\* the detection phase: the protocol call of the current site returns or
\* raises; a raise is caught by the helper's guard or reaches scan's handler
detect ==
    /\ pc = "detect"
    /\ site \in 1..NSites
    /\ \/ /\ result' = SiteEffect(result, site, TRUE)
          /\ site' = site + 1
          /\ pc' = IF site = NSites THEN "do_click" ELSE "detect"
          /\ UNCHANGED <<exc, env>>
       \/ \E e \in CallExceptions :
            /\ CanRaise
            /\ env' = Raised
            /\ IF Catches(Sites[site].guard, e)
               THEN /\ result' = SiteEffect(add_warning(result, Sites[site].label, e), site, FALSE)
                    /\ site' = site + 1
                    /\ pc' = IF site = NSites THEN "do_click" ELSE "detect"
                    /\ exc' = exc
               ELSE /\ result' = result
                    /\ site' = site
                    /\ exc' = e
                    /\ pc' = "except"
    /\ UNCHANGED <<pool, written, returned, webpage, step, attempts, tab,
                   scanner, browser>>
    /\ UNCHANGED othervars

\* self.do_click(click) with click=None
do_click ==
    /\ pc = "do_click"
    /\ pc' = "cleanup_script"
    /\ UNCHANGED <<pool, written, returned, webpage, step, attempts, tab, result,
                   scanner, site, exc, browser, env>>
    /\ UNCHANGED othervars

\* stores the exception's name as the reason
ExceptReason_name(e) == e.name

\* the reason scan's handler stores: str(e)
ExceptReason(e) == e.msg

\* except Exception as e: self.result.set_failed(str(e), type(e).__name__, ...)
scan_except ==
    /\ pc = "except"
    /\ result' = set_failed(result, ExceptReason(exc), exc.name)
    /\ pc' = "cleanup_script"
    /\ UNCHANGED <<pool, written, returned, webpage, step, attempts, tab,
                   scanner, site, exc, browser, env>>
    /\ UNCHANGED othervars

\* self.tab.Emulation.setScriptExecutionDisabled(value=True), outside any try
cleanup_script ==
    /\ pc = "cleanup_script"
    /\ \/ /\ browser' = [browser EXCEPT !.script_disabled = TRUE]
          /\ pc' = "cleanup_clear"
          /\ UNCHANGED <<exc, env>>
       \/ \E e \in CallExceptions :
            /\ CanRaise
            /\ env' = Raised
            /\ browser' = browser
            /\ exc' = e
            /\ pc' = "raised"
    /\ UNCHANGED <<pool, written, returned, webpage, step, attempts, tab, result,
                   scanner, site>>
    /\ UNCHANGED othervars

\* try: self._clear_browser() except Exception: print(...)
cleanup_clear ==
    /\ pc = "cleanup_clear"
    /\ \/ /\ browser' = clear_browser(browser, scanner.loaded_urls)
          /\ env' = env
       \/ \E e \in CallExceptions :
            /\ CanRaise
            /\ env' = Raised
            /\ browser' = browser
    /\ pc' = "cleanup_stop"
    /\ UNCHANGED <<pool, written, returned, webpage, step, attempts, tab, result,
                   scanner, site, exc>>
    /\ UNCHANGED othervars

\* self.tab.stop(), outside any try
cleanup_stop ==
    /\ pc = "cleanup_stop"
    /\ \/ /\ tab' = "stopped"
          /\ pc' = "close_tab"
          /\ UNCHANGED <<exc, env>>
       \/ \E e \in {RuntimeException} :
            /\ CanRaise
            /\ env' = Raised
            /\ tab' = tab
            /\ exc' = e
            /\ pc' = "raised"
    /\ UNCHANGED <<pool, written, returned, webpage, step, attempts, result,
                   scanner, site, browser>>
    /\ UNCHANGED othervars

----------------------------------------------------------------------------
(* Protocol event handlers: called on the tab's event thread while the tab *)
(* is started, concurrently with the scan thread.  The page sends          *)
(* requestWillBeSent once per request, then at most one responseReceived   *)
(* and at most one loadingFailed for it, and one loadEventFired.           *)

EventsEnabled == tab = "started" /\ env.navigating

\* the tab calls the callback set for the event, if there is one
Delivered(event) == EventsEnabled /\ event \in scanner.callbacks

RECURSIVE LeadingDigit(_)
\* the first character of str(n)
LeadingDigit(n) == IF n < 10 THEN n ELSE LeadingDigit(n \div 10)

\* str(status).startswith('4') or str(status).startswith('5')
IsErrorStatus(status) == LeadingDigit(status) = 4 \/ LeadingDigit(status) = 5

\* treats every request as the primary one
IsPrimary_any(requestId) == TRUE

\* `requestId == self.requestId`
IsPrimary(requestId) == requestId = scanner.requestId

_event_request_will_be_sent(requestId) ==
    /\ Delivered("Network.requestWillBeSent")
    /\ env.request[requestId] = "none"
    /\ result' = add_request(result, requestId)
    /\ scanner' = [scanner EXCEPT
                      !.requestId = IF @ = None THEN requestId ELSE @,
                      !.frameId = IF @ = None THEN RootFrame ELSE @]
    /\ env' = [env EXCEPT !.request[requestId] = "sent",
                          !.first_request = IF @ = None THEN requestId ELSE @]
    /\ UNCHANGED <<pool, written, returned, webpage, step, attempts, pc, tab,
                   site, exc, browser>>
    /\ UNCHANGED othervars

_event_response_received(requestId, status) ==
    /\ Delivered("Network.responseReceived")
    /\ env.request[requestId] = "sent"
    /\ scanner' = [scanner EXCEPT !.loaded_urls = @ \cup {requestId}]
    /\ result' = IF IsPrimary(requestId) /\ IsErrorStatus(status)
                 THEN set_failed(add_response(result, requestId, status),
                                 FAILED_REASON_STATUS_CODE, ToString(status))
                 ELSE add_response(result, requestId, status)
    /\ env' = [env EXCEPT !.request[requestId] = "responded"]
    /\ UNCHANGED <<pool, written, returned, webpage, step, attempts, pc, tab,
                   site, exc, browser>>
    /\ UNCHANGED othervars

_event_loading_failed(requestId, errorText) ==
    /\ Delivered("Network.loadingFailed")
    /\ env.request[requestId] \in {"sent", "responded"}
    /\ result' = IF IsPrimary(requestId)
                 THEN set_failed(result, FAILED_REASON_LOADING, errorText)
                 ELSE result
    /\ env' = [env EXCEPT !.request[requestId] = "failed"]
    /\ UNCHANGED <<pool, written, returned, webpage, step, attempts, pc, tab,
                   scanner, site, exc, browser>>
    /\ UNCHANGED othervars

_event_load_event_fired ==
    /\ Delivered("Page.loadEventFired")
    /\ ~env.load_fired
    /\ scanner' = [scanner EXCEPT !.is_loaded = TRUE, !.recordRedirects = FALSE]
    /\ env' = [env EXCEPT !.load_fired = TRUE, !.loading = FALSE,
                          !.loaded = @ \cup {env.document},
                          !.after_wait = (pc = "stopped_waiting")]
    /\ UNCHANGED <<pool, written, returned, webpage, step, attempts, pc, tab,
                   result, site, exc, browser>>
    /\ UNCHANGED othervars

----------------------------------------------------------------------------

Next ==
    \/ apply_async
    \/ f_page_scanned
    \/ task_raised
    \/ scan_page_first
    \/ scan_page_retry
    \/ scan_page_return
    \/ new_tab
    \/ close_tab
    \/ scan_page_raise
    \/ _setup
    \/ navigate_clear_browser
    \/ navigate_call
    \/ navigate_return
    \/ wait_for_load_event_poll
    \/ wait_for_load_event_end
    \/ wait_js
    \/ scan_check
    \/ detect
    \/ do_click
    \/ scan_except
    \/ cleanup_script
    \/ cleanup_clear
    \/ cleanup_stop
    \/ \E requestId \in RequestIds : _event_request_will_be_sent(requestId)
    \/ \E requestId \in RequestIds, status \in Statuses :
         _event_response_received(requestId, status)
    \/ \E requestId \in RequestIds, errorText \in ErrorTexts :
         _event_loading_failed(requestId, errorText)
    \/ _event_load_event_fired

Spec == Init /\ [][Next]_vars

----------------------------------------------------------------------------
(* Browser.do_click: the click phase of scan_page(webpage, do_click=True) *)

\* clickables of one notice
MaxClickables == 2

\* node ids of clickables; None is the node_id of a clickable whose properties
\* could not be read (dict.fromkeys without 'node_id')
ClickNodeIds == {"n1", "n2", None}

\* the techniques in the order add_cookie_notices inserted them
Techniques == <<"fixed_parent", "full_width_parent">>

\* notices one technique found
NoticeCounts == {0, 1}

Clickable(node_id) == [node_id |-> node_id, click_result |-> None]

ClickableLists ==
    UNION {[1..k -> {Clickable(id) : id \in ClickNodeIds}] : k \in 0..MaxClickables}

\* a notice with its clickables, or a notice whose properties could not be read
\* (dict.fromkeys without 'clickables')
Notices ==
    [has_clickables : {TRUE}, clickables : ClickableLists]
        \cup {[has_clickables |-> FALSE, clickables |-> <<>>]}

\* the cookie_notices a session can have produced
CookieNotices ==
    [1..Len(Techniques) ->
        UNION {[1..k -> Notices] : k \in NoticeCounts}]

\* `for ... in result.cookie_notices.items()` is past the last technique
LoopDone == cursor.t > Len(Techniques)

\* `for cookie_notice_index, cookie_notice in enumerate(cookie_notices)` is exhausted
NoticesDone == ~LoopDone /\ cursor.n > Len(cookie_notices[cursor.t])

\* cookie_notice.get('clickables') of the notice the loops are at
CurrentClickables == cookie_notices[cursor.t][cursor.n].clickables

\* enumerate(None) raises TypeError
NotIterable ==
    ~LoopDone /\ ~NoticesDone /\ ~cookie_notices[cursor.t][cursor.n].has_clickables

ClickablesDone ==
    ~LoopDone /\ ~NoticesDone /\ ~NotIterable /\ cursor.c > Len(CurrentClickables)

AtClickable == ~LoopDone /\ ~NoticesDone /\ ~NotIterable /\ ~ClickablesDone

\* clickable.get('node_id') of the clickable the loops are at
CurrentNodeId == CurrentClickables[cursor.c].node_id

\* never finds the node id among the stored results
AlreadyClicked_never(node_id) == FALSE

\* `clickable.get('node_id') in click_results`
AlreadyClicked(node_id) == node_id \in {e.node_id : e \in {click_results[i] : i \in DOMAIN click_results}}

\* click_results.get(node_id)
StoredResult(node_id) ==
    (CHOOSE e \in {click_results[i] : i \in DOMAIN click_results} : e.node_id = node_id).click_result

\* clickable['click_result'] = click_result
SetClickResult(click_result) ==
    [cookie_notices EXCEPT ![cursor.t][cursor.n].clickables[cursor.c].click_result = click_result]

\* Click(detection_technique, cookie_notice_index, clickable_index)
Click == [detection_technique |-> Techniques[cursor.t],
          cookie_notice_index |-> cursor.n - 1,
          clickable_index |-> cursor.c - 1]

\* `if do_click: self.do_click(webpage, result)`: click_results = {}
browser_do_click ==
    /\ cursor.at = "idle"
    /\ cursor' = [cursor EXCEPT !.at = "loop"]
    /\ click_results' = <<>>
    /\ UNCHANGED <<cookie_notices, clicks, call, ret, scanvars>>

\* the loops move on to the next notice or to the next technique
click_next ==
    /\ cursor.at = "loop"
    /\ \/ /\ NoticesDone
          /\ cursor' = [cursor EXCEPT !.t = @ + 1, !.n = 1, !.c = 1]
       \/ /\ ClickablesDone
          /\ cursor' = [cursor EXCEPT !.n = @ + 1, !.c = 1]
    /\ UNCHANGED <<cookie_notices, click_results, clicks, call, ret, scanvars>>

\* the click was already done: the stored result is attached
click_reuse ==
    /\ cursor.at = "loop"
    /\ AtClickable
    /\ AlreadyClicked(CurrentNodeId)
    /\ cookie_notices' = SetClickResult(StoredResult(CurrentNodeId))
    /\ cursor' = [cursor EXCEPT !.c = @ + 1]
    /\ UNCHANGED <<click_results, clicks, call, ret, scanvars>>

\* a click session is run with _scan_page(click=click); its ClickResult object
\* (identified by the number of the session) is attached and stored, or the
\* session raises
NewClickResult == ToString(Len(clicks) + 1)

click_session ==
    /\ cursor.at = "loop"
    /\ AtClickable
    /\ ~AlreadyClicked(CurrentNodeId)
    /\ clicks' = Append(clicks, [click |-> Click, node_id |-> CurrentNodeId])
    /\ \/ /\ cookie_notices' = SetClickResult(NewClickResult)
          /\ click_results' = Append(click_results,
                                     [node_id |-> CurrentNodeId, click_result |-> NewClickResult])
          /\ cursor' = [cursor EXCEPT !.c = @ + 1]
       \/ /\ cursor' = [cursor EXCEPT !.at = "raised"]
          /\ UNCHANGED <<cookie_notices, click_results>>
    /\ UNCHANGED <<call, ret, scanvars>>

\* enumerate(cookie_notice.get('clickables')) of a notice without clickables
click_not_iterable ==
    /\ cursor.at = "loop"
    /\ NotIterable
    /\ cursor' = [cursor EXCEPT !.at = "raised"]
    /\ UNCHANGED <<cookie_notices, click_results, clicks, call, ret, scanvars>>

\* the loops are exhausted: do_click returns
click_return ==
    /\ cursor.at = "loop"
    /\ LoopDone
    /\ cursor' = [cursor EXCEPT !.at = "done"]
    /\ UNCHANGED <<cookie_notices, click_results, clicks, call, ret, scanvars>>

ClickSpecInit ==
    /\ ScanInit
    /\ cookie_notices \in CookieNotices
    /\ click_results = <<>>
    /\ clicks = <<>>
    /\ cursor = NoCursor
    /\ call = NoCall
    /\ ret = NoReturn

ClickNext ==
    \/ browser_do_click
    \/ click_next
    \/ click_reuse
    \/ click_session
    \/ click_not_iterable
    \/ click_return

ClickSpec == ClickSpecInit /\ [][ClickNext]_vars

----------------------------------------------------------------------------
(* AdblockPlusFilter._is_rule_applicable; strings are sequences of characters *)

\* length of the domain string
MaxDomainLen == 3
\* entries of a domain option
MaxEntries == 2

Chars == {"a", "b"}

\* the domain strings a rule is tested against
DomainStrings == UNION {[1..k -> Chars] : k \in 0..MaxDomainLen}

\* the domain names that occur in domain options
EntryStrings == {<<"a">>, <<"a", "b">>, <<"b", "a">>}

\* the value of a domain option: (opt_domain, opt_applicable) pairs, where
\* opt_applicable is False for an exclusion entry (~domain)
DomainOptionValues ==
    UNION {[1..k -> EntryStrings \X BOOLEAN] : k \in 0..MaxEntries}

\* rule.options: (key, value) pairs
RuleOptions ==
    LET domain == {<<"domain", v>> : v \in DomainOptionValues}
        other == <<"match-case", <<>>>>
    IN  {<<>>, <<other>>}
          \cup {<<d>> : d \in domain}
          \cup {<<other, d>> : d \in domain}
          \cup {<<d, e>> : d \in domain, e \in {<<"domain", <<<<(<<"b">>), TRUE>>>>>>}}

\* `opt_domain in domain` on str: opt_domain occurs in domain as a substring
Contains(domain, opt_domain) ==
    \E i \in 0..(Len(domain) - Len(opt_domain)) :
        SubSeq(domain, i + 1, i + Len(opt_domain)) = opt_domain

\* exclusion entries that match make the rule inapplicable
is_rule_applicable_excluding(rule, domain) ==
    LET IsDomain(o) == o[1] = "domain"
        domain_options == SelectSeq(rule.options, IsDomain)
    IN  IF Len(domain_options) = 0 THEN TRUE
        ELSE LET domains == domain_options[1][2]
             IN  /\ \A i \in DOMAIN domains : ~domains[i][2] => ~Contains(domain, domains[i][1])
                 /\ \/ \A i \in DOMAIN domains : ~domains[i][2]
                    \/ \E i \in DOMAIN domains : domains[i][2] /\ Contains(domain, domains[i][1])

is_rule_applicable(rule, domain) ==
    LET IsDomain(o) == o[1] = "domain"
        IsApplicable(d) == d[2] = TRUE
        domain_options == SelectSeq(rule.options, IsDomain)
    IN  IF Len(domain_options) = 0 THEN TRUE
        ELSE LET domains == SelectSeq(domain_options[1][2], IsApplicable)
             IN  IF Len(domains) = 0 THEN TRUE
                 ELSE \E i \in DOMAIN domains : Contains(domain, domains[i][1])

\* self._is_rule_applicable(rule, domain) returns
_is_rule_applicable ==
    /\ call.fn = "_is_rule_applicable"
    /\ ret = NoReturn
    /\ ret' = <<is_rule_applicable(call.rule, call.domain)>>
    /\ UNCHANGED <<call, cookie_notices, click_results, clicks, cursor, scanvars>>

RuleSpecInit ==
    /\ ScanInit
    /\ ClickInit
    /\ call \in [fn : {"_is_rule_applicable"}, rule : [options : RuleOptions],
                 domain : DomainStrings]
    /\ ret = NoReturn

RuleNext == _is_rule_applicable

RuleSpec == RuleSpecInit /\ [][RuleNext]_vars

----------------------------------------------------------------------------
(* results.py: merge of the fixed_parent and full_width_parent notices *)

\* notices in the merged list
MaxCandidates == 3

\* the html of a notice, as a string of characters: "x" is part of "ax" and
\* of "xb", which are both part of "axb"
HtmlStrings == {<<"x">>, <<"a", "x">>, <<"x", "b">>, <<"a", "x", "b">>}

\* the two techniques whose notices are merged, in the order of the document
OwnTechniques == <<"fixed_parent", "full_width_parent">>

\* own_cookie_notices as built by the loop over data.get('cookie_notices'):
\* the fixed_parent notices followed by the full_width_parent notices, each
\* with techniques = [detection_technique]
OwnCookieNotices ==
    UNION {
        {own \in [1..k -> [html : HtmlStrings,
                           techniques : {<<OwnTechniques[i]>> : i \in DOMAIN OwnTechniques}]] :
            \A i, j \in 1..k :
                (i < j /\ own[i].techniques = <<OwnTechniques[2]>>)
                    => own[j].techniques = <<OwnTechniques[2]>>}
        : k \in 0..MaxCandidates}

is_notice_part_of_other(cookie_notice1, cookie_notice2) ==
    /\ Contains(cookie_notice2.html, cookie_notice1.html)
    /\ cookie_notice1.html # cookie_notice2.html

is_notice_equal(cookie_notice1, cookie_notice2) ==
    cookie_notice1.html = cookie_notice2.html

\* of two equal notices the later one absorbs the earlier one
Absorbers_later(index, own) ==
    {i \in DOMAIN own :
        \/ is_notice_part_of_other(own[index], own[i])
        \/ is_notice_equal(own[index], own[i]) /\ index < i}

\* the notices of the list for which is_notice_part_of_some_other's loop would
\* extend the techniques and return True
Absorbers(index, own) ==
    {i \in DOMAIN own :
        \/ is_notice_part_of_other(own[index], own[i])
        \/ is_notice_equal(own[index], own[i]) /\ index > i}

\* the first of them in the order of the list
FirstAbsorber(index, own) ==
    CHOOSE i \in Absorbers(index, own) : \A j \in Absorbers(index, own) : i <= j

\* one turn of the list comprehension: is_notice_part_of_some_other(index, ...)
\* extends the techniques of the first absorber, or the notice is kept
is_notice_part_of_some_other ==
    /\ call.fn = "merge"
    /\ call.index <= Len(call.own)
    /\ IF Absorbers(call.index, call.own) = {}
       THEN call' = [call EXCEPT !.kept = Append(@, call.index), !.index = @ + 1]
       ELSE call' = [call EXCEPT
                        !.own[FirstAbsorber(call.index, call.own)].techniques =
                            @ \o call.own[call.index].techniques,
                        !.index = @ + 1]
    /\ UNCHANGED <<ret, cookie_notices, click_results, clicks, cursor, scanvars>>

\* data['cookie_notices']['own'] = [the notices kept]
merge_return ==
    /\ call.fn = "merge"
    /\ call.index > Len(call.own)
    /\ ret = NoReturn
    /\ ret' = <<[k \in 1..Len(call.kept) |-> call.own[call.kept[k]]]>>
    /\ UNCHANGED <<call, cookie_notices, click_results, clicks, cursor, scanvars>>

MergeSpecInit ==
    /\ ScanInit
    /\ ClickInit
    /\ call \in [fn : {"merge"}, own : OwnCookieNotices, index : {1}, kept : {<<>>}]
    /\ ret = NoReturn

MergeNext ==
    \/ is_notice_part_of_some_other
    \/ merge_return

MergeSpec == MergeSpecInit /\ [][MergeNext]_vars

----------------------------------------------------------------------------
(* WebpageScanner.is_node_visible: the JavaScript function isVisible *)

\* child nodes of the node is_node_visible is called on
MaxChildren == 2

\* what isVisible reads of an element: computed style (opacity in hundredths),
\* offsetWidth and offsetHeight (also the size of the bounding rectangle),
\* whether the centre lies in the viewport, and whether
\* document.elementFromPoint(centre) is the element or one of its descendants
Shown == [display |-> "block", opacity |-> 100, visibility |-> "visible",
          width |-> 50, height |-> 50, centre_in_viewport |-> TRUE, hit |-> TRUE]

ElementKinds ==
    {Shown,
     [Shown EXCEPT !.display = "none"],
     [Shown EXCEPT !.opacity = 5],
     [Shown EXCEPT !.visibility = "hidden"],
     [Shown EXCEPT !.width = 0, !.height = 0, !.hit = FALSE],
     [Shown EXCEPT !.centre_in_viewport = FALSE, !.hit = FALSE],
     [Shown EXCEPT !.hit = FALSE]}

\* an element with its childNodes
Element(kind, children) == [style |-> kind, childNodes |-> children]

Leaves == {Element(k, <<>>) : k \in ElementKinds}

\* the child nodes: leaves, and elements without size or with low opacity
\* that have one child of their own, shown or not displayed
ChildElements ==
    Leaves \cup
    {Element(k, <<Element(g, <<>>)>>) :
        k \in {[Shown EXCEPT !.width = 0, !.height = 0, !.hit = FALSE],
               [Shown EXCEPT !.opacity = 5]},
        g \in {Shown, [Shown EXCEPT !.display = "none"]}}

Elements ==
    {Element(k, c) : k \in ElementKinds,
                     c \in UNION {[1..n -> ChildElements] : n \in 0..MaxChildren}}

\* only display none returns directly
ImmediatelyInvisible_displayOnly(elem) == elem.style.display = "none"

\* "for these rules the childs cannot be visible, directly return"
ImmediatelyInvisible(elem) ==
    \/ elem.style.display = "none"
    \/ elem.style.opacity < 10
    \/ elem.style.visibility # "visible"

\* the value of `visible` after the checks of size and centre
BoxVisible(elem) ==
    /\ elem.style.width + elem.style.height + elem.style.height + elem.style.width # 0
    /\ ~(elem.style.width < 10 \/ elem.style.height < 10)
    /\ elem.style.centre_in_viewport

\* isVisible(elem): the element found visible (by its path of child indexes
\* from the node of the call) or false, with the elements it examined
RECURSIVE isVisible(_, _)
RECURSIVE isVisibleChildren(_, _, _)
isVisible(elem, path) ==
    IF ImmediatelyInvisible(elem)
    THEN [visible |-> FALSE, node |-> <<>>, examined |-> {path}]
    ELSE IF BoxVisible(elem)
         THEN IF elem.style.hit
              THEN [visible |-> TRUE, node |-> path, examined |-> {path}]
              ELSE [visible |-> FALSE, node |-> <<>>, examined |-> {path}]
         ELSE LET r == isVisibleChildren(elem, path, 1)
              IN  [r EXCEPT !.examined = @ \cup {path}]

\* `for (var i = 0; i < childrenCount; i++)` from the i-th child on
isVisibleChildren(elem, path, i) ==
    IF i > Len(elem.childNodes)
    THEN [visible |-> FALSE, node |-> <<>>, examined |-> {}]
    ELSE LET isChildVisible == isVisible(elem.childNodes[i], Append(path, i))
         IN  IF isChildVisible.visible
             THEN isChildVisible
             ELSE LET r == isVisibleChildren(elem, path, i + 1)
                  IN  [r EXCEPT !.examined = @ \cup isChildVisible.examined]

\* the call of Runtime.callFunctionOn returns and is_node_visible returns
\* {'is_visible': ..., 'visible_node': ...}
is_node_visible ==
    /\ call.fn = "is_node_visible"
    /\ ret = NoReturn
    /\ LET js_result == isVisible(call.node, <<>>)
       IN  ret' = <<[is_visible |-> js_result.visible,
                     visible_node |-> IF js_result.visible THEN <<js_result.node>> ELSE <<>>,
                     examined |-> js_result.examined]>>
    /\ UNCHANGED <<call, cookie_notices, click_results, clicks, cursor, scanvars>>

VisibleSpecInit ==
    /\ ScanInit
    /\ ClickInit
    /\ call \in [fn : {"is_node_visible"}, node : Elements]
    /\ ret = NoReturn

VisibleNext == is_node_visible

VisibleSpec == VisibleSpecInit /\ [][VisibleNext]_vars

----------------------------------------------------------------------------
(* WebpageScanner.is_page_modal: the JavaScript function modal *)

margin == 5

\* document.documentElement.clientWidth and clientHeight
Viewports == {[width |-> 100, height |-> 60], [width |-> 60, height |-> 100]}

\* a width or height of a notice: a number of pixels or 'full'
Dimensions == {[full |-> FALSE, px |-> 10], [full |-> FALSE, px |-> 60], [full |-> TRUE, px |-> 0]}

\* the cookie_notice argument: None, or the notice's position and size
ModalNotices ==
    {[given |-> FALSE, x |-> 0, y |-> 0, width |-> [full |-> FALSE, px |-> 10],
      height |-> [full |-> FALSE, px |-> 10]]}
        \cup [given : {TRUE}, x : {0, 20, 50}, y : {0, 20, 50},
              width : Dimensions, height : Dimensions]

\* what lies topmost in the page: a backdrop over the whole viewport, or a
\* header above the body
Pages == {"backdrop", "header and body"}

\* document.elementFromPoint(x, y)
elementFromPoint(page, pos) ==
    IF page = "backdrop" THEN "backdrop"
    ELSE IF pos.y <= margin THEN "header" ELSE "body"

testPositions(viewport) ==
    LET viewportWidth == viewport.width
        viewportHeight == viewport.height
        viewportVerticalCenter == viewportHeight \div 2
    IN  <<[x |-> margin, y |-> margin],
          [x |-> margin, y |-> viewportVerticalCenter],
          [x |-> margin, y |-> viewportHeight - margin],
          [x |-> viewportVerticalCenter, y |-> margin],
          [x |-> viewportVerticalCenter, y |-> viewportHeight - margin],
          [x |-> viewportWidth - margin, y |-> margin],
          [x |-> viewportWidth - margin, y |-> viewportVerticalCenter],
          [x |-> viewportWidth - margin, y |-> viewportHeight - margin]>>

\* `if (cookieNotice.width == 'full') cookieNotice.width = viewportWidth`, and
\* the same for the height
NoticeBox(viewport, cookieNotice) ==
    [x |-> cookieNotice.x, y |-> cookieNotice.y,
     width |-> IF cookieNotice.width.full THEN viewport.width ELSE cookieNotice.width.px,
     height |-> IF cookieNotice.height.full THEN viewport.height ELSE cookieNotice.height.px]

\* the test of the exclusion loop
InBox(testPosition, box) ==
    /\ testPosition.x >= box.x /\ testPosition.x <= box.x + box.width
    /\ testPosition.y >= box.y /\ testPosition.y <= box.y + box.height

\* positions.splice(index, 1), index counted from 1
Splice(positions, index) ==
    SubSeq(positions, 1, index - 1) \o SubSeq(positions, index + 1, Len(positions))

\* removes every position inside the box
RemoveInBox_every(positions, i, box) ==
    LET Outside(testPosition) == ~InBox(testPosition, box)
    IN  SelectSeq(positions, Outside)

\* `for (var i = 0; i < testPositions.length; i++)` from index i on (counted
\* from 1): a position inside the box is spliced out of the array that is
\* being iterated, and i is incremented all the same
RECURSIVE RemoveInBox(_, _, _)
RemoveInBox(positions, i, box) ==
    IF i > Len(positions) THEN positions
    ELSE IF InBox(positions[i], box)
         THEN RemoveInBox(Splice(positions, i), i + 1, box)
         ELSE RemoveInBox(positions, i + 1, box)

\* the positions that are hit-tested
TestedPositions(viewport, cookieNotice) ==
    IF cookieNotice.given
    THEN RemoveInBox(testPositions(viewport), 1, NoticeBox(viewport, cookieNotice))
    ELSE testPositions(viewport)

\* the value of modal(): <<true>> or <<false>>, or <<>> when testPositions[0]
\* is undefined and the function throws
modal(page, positions) ==
    IF Len(positions) = 0 THEN <<>>
    ELSE <<\A i \in 2..Len(positions) :
             elementFromPoint(page, positions[i - 1]) = elementFromPoint(page, positions[i])>>

\* Runtime.evaluate returns and is_page_modal returns result.get('value')
is_page_modal ==
    /\ call.fn = "is_page_modal"
    /\ ret = NoReturn
    /\ LET positions == TestedPositions(call.viewport, call.cookie_notice)
       IN  ret' = <<[tested |-> positions, value |-> modal(call.page, positions)]>>
    /\ UNCHANGED <<call, cookie_notices, click_results, clicks, cursor, scanvars>>

ModalSpecInit ==
    /\ ScanInit
    /\ ClickInit
    /\ call \in [fn : {"is_page_modal"}, viewport : Viewports, page : Pages,
                 cookie_notice : ModalNotices]
    /\ ret = NoReturn

ModalNext == is_page_modal

ModalSpec == ModalSpecInit /\ [][ModalNext]_vars

----------------------------------------------------------------------------
(* WebpageScanner.do_click with a Click: the click session, from the point *)
(* where scan(click=click) has finished the detection phase, with the      *)
(* events about frames and windows the page sends meanwhile                *)

\* events about frames and windows the page sends during one click session
MaxPageEvents == 2

PageUrls == {"u1"}

\* no command of the session carries this notice's position and size
NoGeometry == [x |-> None, y |-> None, width |-> None, height |-> None]

\* notices of the session's result: two with their properties, and one whose
\* properties could not be read (every key None, no 'clickables')
SessionNotices ==
    <<[node_id |-> "c1", x |-> "x1", y |-> "y1", width |-> "w1", height |-> "h1",
       clickables |-> <<[node_id |-> "n1"]>>],
      [node_id |-> "c2", x |-> "x2", y |-> "y2", width |-> "full", height |-> "h2",
       clickables |-> <<[node_id |-> "n1"], [node_id |-> None]>>],
      [node_id |-> None, x |-> None, y |-> None, width |-> None, height |-> None,
       clickables |-> <<>>]>>

\* result.cookie_notices of the session, technique -> list of notices: no
\* technique found a notice, or 'fixed_parent' found these
SessionCookieNotices ==
    {<<>>}
        \cup [{"fixed_parent"} -> {<<>>, <<SessionNotices[3]>>,
                                    <<SessionNotices[1], SessionNotices[2]>>}]

\* the Click instructions Browser.do_click can build
Clicks ==
    [detection_technique : {"fixed_parent", "full_width_parent"},
     cookie_notice_index : {0, 1}, clickable_index : {0, 1}]

\* self.result.cookie_notices.get(click.detection_technique, [])
NoticesOf(click) ==
    IF click.detection_technique \in DOMAIN result.cookie_notices
    THEN result.cookie_notices[click.detection_technique]
    ELSE <<>>

\* `len(cookie_notices) > click.cookie_notice_index`
HasNotice(click) == Len(NoticesOf(click)) > click.cookie_notice_index

\* cookie_notices[click.cookie_notice_index]
ClickedNotice(click) == NoticesOf(click)[click.cookie_notice_index + 1]

\* both `if`s of do_click: the click resolves to a clickable
HasClickable(click) ==
    /\ HasNotice(click)
    /\ Len(ClickedNotice(click).clickables) > click.clickable_index

\* clickables[click.clickable_index]
ClickedClickable(click) == ClickedNotice(click).clickables[click.clickable_index + 1]

\* the dict do_click passes to is_page_modal
Geometry(cookie_notice) ==
    [x |-> cookie_notice.x, y |-> cookie_notice.y,
     width |-> cookie_notice.width, height |-> cookie_notice.height]

\* do_click makes a call on the tab: a command, or tab.wait
Command(method, node_id, geometry) ==
    [env EXCEPT !.commands = Append(@, [method |-> method, node_id |-> node_id,
                                        geometry |-> geometry])]

\* the command raises
CommandRaised(method, node_id, geometry) ==
    [Command(method, node_id, geometry) EXCEPT !.faults = @ + 1]

\* self.click_result.set_cookies('before_click', self._get_all_cookies())
do_click_before ==
    /\ pc = "do_click_before"
    /\ \/ /\ scanner' = [scanner EXCEPT !.click_result.cookies = @ \cup {"before_click"}]
          /\ env' = Command("Network.getAllCookies", None, NoGeometry)
          /\ pc' = IF HasClickable(call.click) THEN "do_click_arm" ELSE "do_click_after"
          /\ exc' = exc
       \/ \E e \in CallExceptions :
            /\ CanRaise
            /\ env' = CommandRaised("Network.getAllCookies", None, NoGeometry)
            /\ exc' = e
            /\ pc' = "except"
            /\ scanner' = scanner
    /\ UNCHANGED <<pool, written, returned, webpage, step, attempts, tab, result,
                   site, browser>>
    /\ UNCHANGED othervars

\* self.recordNewPagesForClick = True
do_click_arm ==
    /\ pc = "do_click_arm"
    /\ scanner' = [scanner EXCEPT !.recordNewPagesForClick = TRUE]
    /\ pc' = "_click_node"
    /\ UNCHANGED <<pool, written, returned, webpage, step, attempts, tab, result,
                   site, exc, browser, env>>
    /\ UNCHANGED othervars

\* self._click_node(clickable.get('node_id')): the node is resolved and
\* clickNode is called on it; a CallMethodException becomes a warning.  A
\* clickable without node_id cannot be resolved.
_click_node ==
    /\ pc = "_click_node"
    /\ LET node_id == ClickedClickable(call.click).node_id
       IN  \/ /\ node_id # None
              /\ env' = Command("clickNode", node_id, NoGeometry)
              /\ pc' = "do_click_settle"
              /\ UNCHANGED <<result, exc>>
           \/ /\ node_id = None
              /\ env' = Command("clickNode", node_id, NoGeometry)
              /\ result' = add_warning(result, "_click_node", CallMethodException)
              /\ pc' = "do_click_settle"
              /\ exc' = exc
           \/ \E e \in CallExceptions :
                /\ node_id # None
                /\ CanRaise
                /\ env' = CommandRaised("clickNode", node_id, NoGeometry)
                /\ IF Catches("CallMethodException", e)
                   THEN /\ result' = add_warning(result, "_click_node", e)
                        /\ pc' = "do_click_settle"
                        /\ exc' = exc
                   ELSE /\ result' = result
                        /\ pc' = "except"
                        /\ exc' = e
    /\ UNCHANGED <<pool, written, returned, webpage, step, attempts, tab,
                   scanner, site, browser>>
    /\ UNCHANGED othervars

\* never waits for the new document
WaitsForNavigation_never == FALSE

\* `if self.waitForNavigatedEvent:`
WaitsForNavigation == scanner.waitForNavigatedEvent

\* self.tab.wait(1), then `if self.waitForNavigatedEvent:` the call of
\* _wait_for_load_event(30), which starts with waited = 0
do_click_settle ==
    /\ pc = "do_click_settle"
    /\ pc' = IF WaitsForNavigation THEN "_wait_for_load_event"
             ELSE "is_page_modal"
    /\ scanner' = [scanner EXCEPT !.waited = 0]
    /\ env' = Command("wait", None, NoGeometry)
    /\ UNCHANGED <<pool, written, returned, webpage, step, attempts, tab, result,
                   site, exc, browser>>
    /\ UNCHANGED othervars

\* is_page_modal({'x': ..., 'y': ..., 'width': ..., 'height': ...}) and
\* set_is_page_modal: the page answers true or false
do_click_is_page_modal ==
    /\ pc = "is_page_modal"
    /\ LET geometry == Geometry(ClickedNotice(call.click))
       IN  \/ \E value \in BOOLEAN :
                /\ scanner' = [scanner EXCEPT !.click_result.is_page_modal =
                                                  ToString(value)]
                /\ env' = Command("modal", None, geometry)
                /\ pc' = "_does_node_exist"
                /\ exc' = exc
           \/ \E e \in CallExceptions :
                /\ CanRaise
                /\ env' = CommandRaised("modal", None, geometry)
                /\ exc' = e
                /\ pc' = "except"
                /\ scanner' = scanner
    /\ UNCHANGED <<pool, written, returned, webpage, step, attempts, tab, result,
                   site, browser>>
    /\ UNCHANGED othervars

\* sets True whether the node exists or not
visible_after_click_unchecked(exists, is_visible) == is_visible

\* `if self._does_node_exist(...)`: is_node_visible(...).get('is_visible'),
\* `else`: False
visible_after_click(exists, is_visible) == IF exists THEN is_visible ELSE FALSE

\* the check whether the notice is still visible: DOM.describeNode tells
\* whether the node exists (a notice without node_id does not), isVisible is
\* called on a node that exists; is_node_visible turns a CallMethodException
\* into a warning and is_visible False
do_click_visible ==
    /\ pc = "_does_node_exist"
    /\ LET node_id == ClickedNotice(call.click).node_id
           described == Command("DOM.describeNode", node_id, NoGeometry)
           answered(exists) == [described EXCEPT !.answers = Append(@, exists)]
           called(exists) ==
               [answered(exists) EXCEPT
                   !.commands = IF exists
                                THEN Append(@, [method |-> "isVisible", node_id |-> node_id,
                                                geometry |-> NoGeometry])
                                ELSE @]
           set(value) ==
               [scanner EXCEPT !.click_result.cookie_notice_visible_after_click =
                                   ToString(value)]
       IN  \/ \E exists \in BOOLEAN, is_visible \in BOOLEAN :
                /\ exists => node_id # None
                /\ env' = called(exists)
                /\ scanner' = set(visible_after_click(exists, is_visible))
                /\ pc' = "do_click_after"
                /\ UNCHANGED <<result, exc>>
           \/ \E e \in CallExceptions :
                /\ node_id # None
                /\ CanRaise
                /\ env' = [called(TRUE) EXCEPT !.faults = @ + 1]
                /\ IF Catches("CallMethodException", e)
                   THEN /\ result' = add_warning(result, "is_node_visible", e)
                        /\ scanner' = set(visible_after_click(TRUE, FALSE))
                        /\ pc' = "do_click_after"
                        /\ exc' = exc
                   ELSE /\ result' = result
                        /\ scanner' = scanner
                        /\ pc' = "except"
                        /\ exc' = e
    /\ UNCHANGED <<pool, written, returned, webpage, step, attempts, tab,
                   site, browser>>
    /\ UNCHANGED othervars

\* self.click_result.set_cookies('after_click', self._get_all_cookies()), the
\* end of do_click
do_click_after ==
    /\ pc = "do_click_after"
    /\ \/ /\ scanner' = [scanner EXCEPT !.click_result.cookies = @ \cup {"after_click"}]
          /\ env' = Command("Network.getAllCookies", None, NoGeometry)
          /\ pc' = "cleanup_script"
          /\ exc' = exc
       \/ \E e \in CallExceptions :
            /\ CanRaise
            /\ env' = CommandRaised("Network.getAllCookies", None, NoGeometry)
            /\ exc' = e
            /\ pc' = "except"
            /\ scanner' = scanner
    /\ UNCHANGED <<pool, written, returned, webpage, step, attempts, tab, result,
                   site, browser>>
    /\ UNCHANGED othervars

\* appends the page even if the list holds it
add_new_page_append(click_result, url, root_frame, new_window) ==
    [click_result EXCEPT !.new_pages =
        Append(@, [url |-> url, root_frame |-> root_frame, new_window |-> new_window])]

\* ClickResult.add_new_page: `if new_page not in self.new_pages:` append
add_new_page(click_result, url, root_frame, new_window) ==
    LET new_page == [url |-> url, root_frame |-> root_frame, new_window |-> new_window]
    IN  IF \E i \in DOMAIN click_result.new_pages : click_result.new_pages[i] = new_page
        THEN click_result
        ELSE [click_result EXCEPT !.new_pages = Append(@, new_page)]

\* the page sends one more event about a frame or a window
PageEvent == [env EXCEPT !.page_events = @ + 1]

\* Page.frameStartedLoading; the root frame begins to load the next document
\* only when it is not loading one
_event_frame_started_loading(frameId) ==
    /\ Delivered("Page.frameStartedLoading")
    /\ env.page_events < MaxPageEvents
    /\ frameId = RootFrame => ~env.loading
    /\ scanner' = IF scanner.recordNewPagesForClick /\ frameId = scanner.frameId
                  THEN [scanner EXCEPT !.is_loaded = FALSE, !.waitForNavigatedEvent = TRUE]
                  ELSE scanner
    /\ env' = IF frameId = RootFrame
              THEN [PageEvent EXCEPT
                       !.loading = TRUE, !.load_fired = FALSE, !.document = @ + 1,
                       !.settle_documents = IF pc = "do_click_settle"
                                            THEN @ \cup {env.document + 1} ELSE @]
              ELSE PageEvent
    /\ UNCHANGED <<pool, written, returned, webpage, step, attempts, pc, tab,
                   result, site, exc, browser>>
    /\ UNCHANGED othervars

_event_frame_requested_navigation(url, frameId) ==
    /\ Delivered("Page.frameRequestedNavigation")
    /\ env.page_events < MaxPageEvents
    /\ LET is_root_frame == (scanner.frameId = frameId)
       IN  scanner' = IF scanner.recordNewPagesForClick
                      THEN [scanner EXCEPT !.click_result =
                               add_new_page(@, url, is_root_frame, FALSE)]
                      ELSE scanner
    /\ env' = PageEvent
    /\ UNCHANGED <<pool, written, returned, webpage, step, attempts, pc, tab,
                   result, site, exc, browser>>
    /\ UNCHANGED othervars

_event_navigated_within_document(url, frameId) ==
    /\ Delivered("Page.navigatedWithinDocument")
    /\ env.page_events < MaxPageEvents
    /\ LET is_root_frame == (scanner.frameId = frameId)
       IN  /\ result' = IF scanner.recordRedirects
                        THEN add_redirect(result, url, is_root_frame)
                        ELSE result
           /\ scanner' = IF scanner.recordNewPagesForClick
                         THEN [scanner EXCEPT !.click_result =
                                  add_new_page(@, url, is_root_frame, FALSE)]
                         ELSE scanner
    /\ env' = PageEvent
    /\ UNCHANGED <<pool, written, returned, webpage, step, attempts, pc, tab,
                   site, exc, browser>>
    /\ UNCHANGED othervars

_event_window_open(url) ==
    /\ Delivered("Page.windowOpen")
    /\ env.page_events < MaxPageEvents
    /\ scanner' = IF scanner.recordNewPagesForClick
                  THEN [scanner EXCEPT !.click_result = add_new_page(@, url, TRUE, TRUE)]
                  ELSE scanner
    /\ env' = PageEvent
    /\ UNCHANGED <<pool, written, returned, webpage, step, attempts, pc, tab,
                   result, site, exc, browser>>
    /\ UNCHANGED othervars

\* the session when scan reaches do_click: the page was loaded with the first
\* request answered, the load event fired within the load budget or the wait
\* was stopped, the detection phase stored its notices
SessionInit ==
    /\ pool = "running"
    /\ written = <<>>
    /\ returned = WebpageResult(Webpage)
    /\ webpage = Webpage
    /\ step = 0
    /\ attempts = <<[url |-> Webpage.url, outcome |-> "pending"]>>
    /\ pc = "do_click_before"
    /\ tab = "started"
    /\ site = NSites + 1
    /\ exc = NoException
    /\ \E is_loaded \in BOOLEAN, notices \in SessionCookieNotices :
         /\ result = [(IF is_loaded THEN WebpageResult(Webpage)
                       ELSE set_stopped_waiting(WebpageResult(Webpage), "load event"))
                         EXCEPT !.requests = <<"r1">>,
                                !.responses = <<[url |-> "r1", status |-> 200]>>,
                                !.html = "html", !.language = "en",
                                !.is_cmp_defined = TRUE, !.cookies = {"all"},
                                !.cookie_notices = notices]
         /\ scanner = [NewScanner EXCEPT !.callbacks = RegisteredCallbacks,
                                         !.is_loaded = is_loaded,
                                         !.recordRedirects = ~is_loaded,
                                         !.requestId = "r1", !.frameId = RootFrame,
                                         !.loaded_urls = {"r1"},
                                         !.waited = IF is_loaded THEN 0 ELSE MaxPolls]
         /\ browser = [NewBrowser EXCEPT !.stop_loading = ~is_loaded]
         /\ env = [NewEnv EXCEPT !.navigating = TRUE, !.request["r1"] = "responded",
                                 !.first_request = "r1", !.load_fired = is_loaded,
                                 !.loaded = IF is_loaded THEN {0} ELSE {}]
    /\ ClickInit
    /\ call \in [fn : {"do_click"}, click : Clicks]
    /\ ret = NoReturn

SessionNext ==
    \/ do_click_before
    \/ do_click_arm
    \/ _click_node
    \/ do_click_settle
    \/ wait_for_load_event_poll
    \/ wait_for_load_event_end
    \/ do_click_is_page_modal
    \/ do_click_visible
    \/ do_click_after
    \/ scan_except
    \/ cleanup_script
    \/ cleanup_clear
    \/ cleanup_stop
    \/ \E frameId \in FrameIds : _event_frame_started_loading(frameId)
    \/ \E url \in PageUrls, frameId \in FrameIds :
         _event_frame_requested_navigation(url, frameId)
    \/ \E url \in PageUrls, frameId \in FrameIds :
         _event_navigated_within_document(url, frameId)
    \/ \E url \in PageUrls : _event_window_open(url)
    \/ _event_load_event_fired

SessionSpec == SessionInit /\ [][SessionNext]_vars

----------------------------------------------------------------------------
(* WebpageScanner.find_clickables_in_node: the JavaScript function         *)
(* findClickablesInElement                                                 *)

\* elements that match the selector of querySelectorAll
MaxMatches == 5

\* the matched elements are numbered in document order (the order of the
\* NodeList); a list of matches gives, for each element, the nearest matched
\* element that contains it, or 0: an element comes after those containing it
MatchLists ==
    UNION {{parents \in [1..n -> 0..n] : \A i \in 1..n : parents[i] < i} :
              n \in 0..MaxMatches}

\* node1.contains(node2): node2 is node1 or lies inside of it
RECURSIVE contains(_, _, _)
contains(parents, node1, node2) ==
    \/ node1 = node2
    \/ parents[node2] # 0 /\ contains(parents, node1, parents[node2])

\* array.indexOf(element): the index from 0 on, or -1
RECURSIVE indexOfFrom(_, _, _)
indexOfFrom(array, element, k) ==
    IF k > Len(array) THEN -1
    ELSE IF array[k] = element THEN k - 1
    ELSE indexOfFrom(array, element, k + 1)

indexOf(array, element) == indexOfFrom(array, element, 1)

\* array.splice(start, 1): a negative start counts from the end of the array
splice(array, start) ==
    LET from == IF start < 0
                THEN (IF Len(array) + start < 0 THEN 0 ELSE Len(array) + start)
                ELSE start
    IN  [k \in 1..(IF from < Len(array) THEN Len(array) - 1 ELSE Len(array)) |->
            IF k <= from THEN array[k] ELSE array[k + 1]]

\* the two loops of findCoveringNodes from (i, j) on, i and j counted from 1
RECURSIVE findCoveringNodesFrom(_, _, _, _)
findCoveringNodesFrom(parents, covering_nodes, i, j) ==
    IF i > Len(parents) THEN covering_nodes
    ELSE IF j > Len(parents) THEN findCoveringNodesFrom(parents, covering_nodes, i + 1, 1)
    ELSE IF i # j /\ contains(parents, i, j)
         THEN findCoveringNodesFrom(parents,
                                    splice(covering_nodes, indexOf(covering_nodes, j)),
                                    i, j + 1)
         ELSE findCoveringNodesFrom(parents, covering_nodes, i, j + 1)

\* findCoveringNodes(nodes): covering_nodes = Array.from(nodes), then the loops
findCoveringNodes(parents) ==
    findCoveringNodesFrom(parents, [k \in 1..Len(parents) |-> k], 1, 1)

\* the call of findClickablesInElement returns the array
find_clickables_in_node ==
    /\ call.fn = "find_clickables_in_node"
    /\ ret = NoReturn
    /\ ret' = <<findCoveringNodes(call.nodes)>>
    /\ UNCHANGED <<call, cookie_notices, click_results, clicks, cursor, scanvars>>

CoverSpecInit ==
    /\ ScanInit
    /\ ClickInit
    /\ call \in [fn : {"find_clickables_in_node"}, nodes : MatchLists]
    /\ ret = NoReturn

CoverNext == find_clickables_in_node

CoverSpec == CoverSpecInit /\ [][CoverNext]_vars

----------------------------------------------------------------------------
(* WebpageScanner._find_fixed_parent *)

\* elements from the anchor up to the html element of its document
MaxDepth == 4

Positions == {"static", "absolute", "fixed"}

\* the anchor and its ancestors in its document, the anchor first and the
\* html element last: the computed position of each
Chains == UNION {[1..n -> Positions] : n \in 1..MaxDepth}

\* the frame of the anchor's document: the root frame or a frame in an iframe
Frames == {RootFrame, SubFrame}

\* the node id of the k-th element of the chain, and of the iframe element
\* that hosts the sub-frame
NodeId(k) == ToString(k)

FrameOwner == "iframe"

\* begins with the parent of the element
findFixedParent_fromParent(chain, k) ==
    LET fixed == {i \in (k + 1)..(Len(chain) - 1) : chain[i] = "fixed"}
    IN  IF fixed = {} THEN Len(chain)
        ELSE CHOOSE i \in fixed : \A j \in fixed : i <= j

\* findFixedParent(elem) from the k-th element on: the loop ends at an element
\* whose position is fixed, or at the element whose parentNode is the
\* document, the html element, whose style it does not look at
RECURSIVE findFixedParent(_, _)
findFixedParent(chain, k) ==
    IF k < Len(chain)
    THEN IF chain[k] = "fixed" THEN k ELSE findFixedParent(chain, k + 1)
    ELSE k

\* the calls return: the element found is the html element (no fixed parent
\* in the root frame, the frame's owner otherwise) or a fixed element
_find_fixed_parent ==
    /\ call.fn = "_find_fixed_parent"
    /\ ret = NoReturn
    /\ LET found == findFixedParent(call.chain, 1)
           is_html_node == found >= Len(call.chain)
       IN  ret' = IF is_html_node
                  THEN IF RootFrame = call.frameId
                       THEN <<[has_fixed_parent |-> FALSE, fixed_parent |-> None]>>
                       ELSE <<[has_fixed_parent |-> TRUE, fixed_parent |-> FrameOwner]>>
                  ELSE <<[has_fixed_parent |-> TRUE, fixed_parent |-> NodeId(found)]>>
    /\ UNCHANGED <<call, cookie_notices, click_results, clicks, cursor, scanvars>>

FixedSpecInit ==
    /\ ScanInit
    /\ ClickInit
    /\ call \in [fn : {"_find_fixed_parent"}, chain : Chains, frameId : Frames]
    /\ ret = NoReturn

FixedNext == _find_fixed_parent

FixedSpec == FixedSpecInit /\ [][FixedNext]_vars

----------------------------------------------------------------------------
(* Properties *)

\* the scan thread stands right after scan() has returned to _scan_page
ScanReturned == pc = "close_tab"

ClassifiedReasons ==
    {FAILED_REASON_TIMEOUT, FAILED_REASON_STATUS_CODE, FAILED_REASON_LOADING}

Exceptions == {CallMethodException, TimeoutException, RuntimeException}

\* the retry sequence of Browser.scan_page's docstring
AttemptUrls == <<"https://domain", "https://www.domain", "http://domain", "http://www.domain">>

\* C1: whatever the navigation outcome, in a session none of whose protocol
\* calls raised, when scan returns the session has disabled script execution,
\* cleared the browser's data after the navigation, and stopped the tab.
C1_CleanupBeforeReturn ==
    (ScanReturned /\ env.faults = 0)
        => (browser.script_disabled /\ browser.clean /\ tab = "stopped")

\* the result ended failed with one of the two reasons that allow a retry
EndedInRetryReason(r) ==
    r.failed /\ r.failed_reason \in {"loading failed", "Page.navigate timeout"}

PrimaryErrorStatuses ==
    {result.responses[i].status : i \in
        {j \in DOMAIN result.responses :
            /\ result.responses[j].url = scanner.requestId
            /\ IsErrorStatus(result.responses[j].status)}}

\* C3: if the primary request's response has a 4xx/5xx status, the attempt
\* ends with failed=true, failed_reason='status code' and failed_exception the
\* status as a string (so that no further attempt is made), whatever events
\* follow the response.
C3_StatusCodeIsFinal ==
    \A status \in PrimaryErrorStatuses :
        ScanReturned =>
            /\ result.failed
            /\ result.failed_reason = FAILED_REASON_STATUS_CODE
            /\ result.failed_exception = ToString(status)
            /\ ~RetryCondition(result)

\* C4: once failed is true, no later step of the same session changes
\* failed_reason or failed_exception.
C4_FailureWriteOnce ==
    [][(result.failed /\ pc # "_scan_page")
         => /\ result'.failed_reason = result.failed_reason
            /\ result'.failed_exception = result.failed_exception]_vars

ResponseStep(id) == env.request[id] = "sent" /\ env'.request[id] = "responded"

\* a step in which the page delivers loadingFailed for request id
LoadingFailedStep(id) ==
    env.request[id] \in {"sent", "responded"} /\ env'.request[id] = "failed"

\* C6 as stated: a response or a loadingFailed event for a request other than
\* the primary one is recorded in the result and does not set failed.
C6_OthersRecorded ==
    [][\A id \in RequestIds :
         ((ResponseStep(id) \/ LoadingFailedStep(id)) /\ id # scanner.requestId)
             => (result' # result /\ result'.failed = result.failed)]_vars

\* C6 amended: the primary request id is the id of the session's first
\* requestWillBeSent and never changes afterwards; a response for another
\* request id is appended to responses and a loadingFailed event for another
\* request id leaves the result as it is; neither sets failed.
C6_PrimaryRequest ==
    /\ [](scanner.requestId = env.first_request)
    /\ [][/\ (scanner.requestId # None /\ pc \notin {"_scan_page", "_setup", "close_tab"})
               => scanner'.requestId = scanner.requestId
          /\ \A id \in RequestIds :
               /\ (ResponseStep(id) /\ id # scanner.requestId)
                    => /\ Len(result'.responses) = Len(result.responses) + 1
                       /\ result'.responses[Len(result'.responses)].url = id
                       /\ result'.failed = result.failed
                       /\ result'.failed_reason = result.failed_reason
               /\ (LoadingFailedStep(id) /\ id # scanner.requestId)
                    => result' = result]_vars

\* C6 witness: the second request got a 5xx response and then failed to load,
\* and the session is not failed
C6_Witness ==
    \E id \in RequestIds :
        /\ scanner.requestId \notin {None, id}
        /\ env.request[id] = "failed"
        /\ \E i \in DOMAIN result.responses :
             result.responses[i].url = id /\ IsErrorStatus(result.responses[i].status)
        /\ ~result.failed

\* C7 as stated: a returned result with failed=true has as failed_reason one
\* of the three classified reasons or the name of an exception.
C7_ReasonIsName ==
    (pool = "returned" /\ returned.failed)
        => returned.failed_reason \in ClassifiedReasons \cup {e.name : e \in Exceptions}

\* C7 amended: a returned result with failed=true has as failed_reason one of
\* the three classified reasons, or the message str(e) of the exception that
\* was raised, whose name is then in failed_exception.
C7_ReasonIsMessage ==
    (pool = "returned" /\ returned.failed)
        => \/ returned.failed_reason \in ClassifiedReasons
           \/ \E e \in Exceptions :
                /\ returned.failed_reason = e.msg
                /\ returned.failed_exception = e.name

\* C7 witness: a result is returned whose failure came from scan's handler
C7_Witness ==
    /\ pool = "returned"
    /\ returned.failed
    /\ returned.failed_reason \notin ClassifiedReasons

\* C8: once the pool has finished the submitted target, the completion
\* callback has written one result document for it.
C8_EveryScanWritten ==
    pool = "joined" => Len(written) = 1

\* C9: in the detection phase, a protocol call that raises is caught where it
\* is made: a warning naming the method is appended, failed is not set and the
\* detection goes on.
C9_DetectionCallsCaught ==
    [][(pc = "detect" /\ env'.faults = env.faults + 1)
         => /\ Len(result'.warnings) = Len(result.warnings) + 1
            /\ result'.warnings[Len(result'.warnings)].method = Sites[site].helper
            /\ result'.failed = result.failed
            /\ pc' \in {"detect", "do_click"}]_vars

\* C10: a cleanup step that raises does not make scan raise and leaves the
\* result's failure fields as they are.
C10_CleanupFailuresCaught ==
    [][(pc \in {"cleanup_script", "cleanup_clear", "cleanup_stop"}
            /\ env'.faults = env.faults + 1)
         => /\ pc' # "raised"
            /\ result'.failed = result.failed
            /\ result'.failed_reason = result.failed_reason
            /\ result'.failed_exception = result.failed_exception]_vars

\* C11: once the session's scan has returned, no later step changes the
\* session's result.
C11_ResultFinalized ==
    [][ScanReturned => result' = result]_vars

\* the clickable entries of cookie_notices, by position
ClickableEntries ==
    {pos \in (1..Len(Techniques)) \X (NoticeCounts \ {0}) \X (1..MaxClickables) :
        /\ pos[2] <= Len(cookie_notices[pos[1]])
        /\ pos[3] <= Len(cookie_notices[pos[1]][pos[2]].clickables)}

EntryAt(pos) == cookie_notices[pos[1]][pos[2]].clickables[pos[3]]

\* C12: during one Browser.do_click no two click sessions are run for the
\* same node id; entries with the same node id that have a click result have
\* the same one, and it is the result of the one session run for that node
\* id; when do_click returns every clickable entry has a click result.
C12_OneClickPerNode ==
    /\ \A a, b \in DOMAIN clicks : clicks[a].node_id = clicks[b].node_id => a = b
    /\ \A p \in ClickableEntries :
         EntryAt(p).click_result # None =>
            \E a \in DOMAIN clicks :
                /\ clicks[a].node_id = EntryAt(p).node_id
                /\ EntryAt(p).click_result = ToString(a)
    /\ cursor.at = "done" => \A p \in ClickableEntries : EntryAt(p).click_result # None

\* C12 witness: do_click has returned, two entries found by different
\* techniques have the same node id, and the second got the first's result
C12_Witness ==
    /\ cursor.at = "done"
    /\ Len(clicks) = 1
    /\ \E p, q \in ClickableEntries :
         /\ p[1] # q[1]
         /\ EntryAt(p).node_id = EntryAt(q).node_id
         /\ EntryAt(p).click_result = "1"
         /\ EntryAt(q).click_result = "1"

\* the call of _is_rule_applicable has returned
RuleReturned == call.fn = "_is_rule_applicable" /\ ret # NoReturn

\* the indexes of the options of the rule in the call that are domain options
DomainOptionIndexes == {i \in DOMAIN call.rule.options : call.rule.options[i][1] = "domain"}

\* the entries of the rule's (first) domain option
DomainEntries ==
    LET first == CHOOSE i \in DomainOptionIndexes : \A j \in DomainOptionIndexes : i <= j
        v == call.rule.options[first][2]
    IN  {v[i] : i \in DOMAIN v}

\* C13: _is_rule_applicable returns true for a rule without domain option,
\* true for a rule whose domain option has only exclusion entries, and
\* otherwise true exactly when the domain string contains an inclusion entry
\* of the domain option as a substring; the exclusion entries have no
\* influence on the result.
C13_RuleApplicable ==
    RuleReturned =>
        IF DomainOptionIndexes = {} THEN ret[1] = TRUE
        ELSE IF \A e \in DomainEntries : e[2] = FALSE THEN ret[1] = TRUE
        ELSE ret[1] = (\E e \in DomainEntries : e[2] = TRUE /\ Contains(call.domain, e[1]))

\* C13 witness: the domain option has an exclusion entry that occurs in the
\* domain string and an inclusion entry that occurs in it too, and the rule
\* was found applicable
C13_Witness ==
    /\ RuleReturned
    /\ DomainOptionIndexes # {}
    /\ \E e \in DomainEntries : e[2] = FALSE /\ Contains(call.domain, e[1])
    /\ \E e \in DomainEntries : e[2] = TRUE /\ Contains(call.domain, e[1])
    /\ ret[1] = TRUE

\* the merge has returned the list of kept notices
MergeReturned == call.fn = "merge" /\ ret # NoReturn

\* the candidates of the merge, by their position in the list before the merge
Candidates == DOMAIN call.own

\* the candidates that remain in the merged list
Kept == {call.kept[k] : k \in DOMAIN call.kept}

\* the technique that found the candidate
OwnTag(a) == call.own[a].techniques[1]

\* the technique tags the candidate carries
TagsOf(a) == {call.own[a].techniques[k] : k \in DOMAIN call.own[a].techniques}

\* a's html is a strict substring of b's html
StrictlyInside(a, b) ==
    /\ call.own[a].html # call.own[b].html
    /\ Contains(call.own[b].html, call.own[a].html)

SameHtml(a, b) == call.own[a].html = call.own[b].html

\* C14: after the merge, for any two candidates A and B with A's html a strict
\* substring of B's html, A is not in the merged list and B, if it is in the
\* merged list, carries A's technique tag.
C14_ContainerAbsorbs ==
    MergeReturned =>
        \A a, b \in Candidates :
            StrictlyInside(a, b) =>
                /\ a \notin Kept
                /\ b \in Kept => OwnTag(a) \in TagsOf(b)

\* C15 as stated: of two candidates with identical html, which no other
\* candidate's html equals or contains, the later one is kept and carries the
\* earlier one's tag, and the earlier one is dropped.
C15_LaterKept ==
    MergeReturned =>
        \A a, b \in Candidates :
            (/\ a < b
             /\ SameHtml(a, b)
             /\ \A c \in Candidates \ {a, b} : ~SameHtml(a, c) /\ ~StrictlyInside(a, c))
                => /\ b \in Kept
                   /\ a \notin Kept
                   /\ OwnTag(a) \in TagsOf(b)

\* C15 amended: of two candidates with identical html the later one is
\* dropped; if no candidate's html strictly contains theirs, the earliest
\* candidate with this html is kept and carries the later one's tag.
C15_EarlierKept ==
    MergeReturned =>
        \A a, b \in Candidates :
            (a < b /\ SameHtml(a, b)) =>
                /\ b \notin Kept
                /\ (\A c \in Candidates : ~StrictlyInside(a, c)) =>
                     \E e \in Kept :
                        /\ SameHtml(e, a)
                        /\ \A c \in Candidates : SameHtml(c, e) => e <= c
                        /\ OwnTag(b) \in TagsOf(e)

\* C15 witness: two candidates with identical html found by different
\* techniques; the earlier one is in the merged list with both tags
C15_Witness ==
    /\ MergeReturned
    /\ \E a, b \in Candidates :
         /\ a < b
         /\ SameHtml(a, b)
         /\ OwnTag(a) # OwnTag(b)
         /\ a \in Kept
         /\ b \notin Kept
         /\ TagsOf(a) = {OwnTag(a), OwnTag(b)}

\* C16: after the merge, the tag of every dropped candidate is carried by a
\* candidate of the merged list, and no candidate of the merged list has an
\* html equal to or a substring of another one's.
C16_NoTagLost ==
    MergeReturned =>
        /\ \A a \in Candidates \ Kept : \E b \in Kept : OwnTag(a) \in TagsOf(b)
        /\ \A a, b \in Kept : a # b => ~SameHtml(a, b) /\ ~StrictlyInside(a, b)

\* the call of is_node_visible has returned
VisibleReturned == call.fn = "is_node_visible" /\ ret # NoReturn

\* C17: for a node whose computed style has display none, an opacity below
\* 0.1 or a visibility other than 'visible', is_node_visible reports
\* is_visible false, and no other element than the node itself was examined.
C17_HiddenNodeInvisible ==
    (/\ VisibleReturned
     /\ \/ call.node.style.display = "none"
        \/ call.node.style.opacity < 10
        \/ call.node.style.visibility # "visible")
        => /\ ret[1].is_visible = FALSE
           /\ ret[1].examined = {<<>>}

\* C17 witness: a node with opacity below 0.1 that has a shown child was
\* reported not visible
C17_Witness ==
    /\ VisibleReturned
    /\ call.node.style.display = "block"
    /\ call.node.style.opacity < 10
    /\ \E i \in DOMAIN call.node.childNodes : call.node.childNodes[i].style = Shown
    /\ ret[1].is_visible = FALSE

\* the call of is_page_modal has returned
ModalReturned == call.fn = "is_page_modal" /\ ret # NoReturn

\* C18: when is_page_modal is given a notice, none of the positions that are
\* hit-tested lies within the notice's box (a 'full' dimension being the
\* viewport's), and for a notice at the origin with full width and height no
\* position is left.
C18_BoxExcluded ==
    (ModalReturned /\ call.cookie_notice.given) =>
        LET box == NoticeBox(call.viewport, call.cookie_notice)
            tested == ret[1].tested
        IN  /\ \A i \in DOMAIN tested : ~InBox(tested[i], box)
            /\ (/\ call.cookie_notice.x = 0 /\ call.cookie_notice.y = 0
                /\ call.cookie_notice.width.full /\ call.cookie_notice.height.full)
                  => tested = <<>>

\* the events the claim names
NavigationEvents ==
    {"Network.requestWillBeSent", "Network.responseReceived", "Network.loadingFailed",
     "Page.loadEventFired", "Page.frameRequestedNavigation", "Page.frameStartedLoading",
     "Page.navigatedWithinDocument", "Page.windowOpen"}

\* C19: in every session, from the moment Page.navigate is issued on, the
\* callback of each protocol event is set on the tab, and the tab was started.
C19_CallbacksBeforeNavigate ==
    env.navigating =>
        /\ NavigationEvents \subseteq scanner.callbacks
        /\ tab \in {"started", "stopped"}

\* C19 witness: the load event caused by the navigation was delivered to its
\* callback
C19_Witness ==
    /\ env.navigating
    /\ env.load_fired
    /\ scanner.is_loaded
    /\ "Page.loadEventFired" \in scanner.callbacks

\* C20: when Page.navigate is about to be issued in an attempt after the
\* first, cache and cookies have been cleared and no first-level domain from
\* which a response was observed during the previous attempt has its storage
\* uncleared.
C20_PreviousDomainsCleared ==
    (pc = "navigate" /\ Len(attempts) > 1)
        => (browser.clean /\ browser.uncleared = {})

----------------------------------------------------------------------------
(* The click session *)

\* the click of the session names a notice of the session's result
NoticeFound ==
    /\ call.fn = "do_click"
    /\ call.click.detection_technique \in DOMAIN result.cookie_notices
    /\ call.click.cookie_notice_index
          < Len(result.cookie_notices[call.click.detection_technique])

\* the notice the click names
Candidate ==
    result.cookie_notices[call.click.detection_technique][call.click.cookie_notice_index + 1]

\* the click names a clickable of that notice
Resolved ==
    /\ NoticeFound
    /\ call.click.clickable_index < Len(Candidate.clickables)

\* the calls do_click made on the tab so far
Methods == [i \in DOMAIN env.commands |-> env.commands[i].method]

IsPrefix(s, t) == Len(s) <= Len(t) /\ \A i \in DOMAIN s : s[i] = t[i]

Armed == scanner.recordNewPagesForClick

\* C21: in a click session whose click resolves to a clickable the steps
\* happen in this order: 'before_click' snapshot, arming, click, settle wait,
\* modality with the notice's stored position and size, visibility (False
\* without asking the page when the notice's node does not exist any more),
\* 'after_click' snapshot.
C21_ClickOrder ==
    Resolved =>
        LET click_result == scanner.click_result
            n == Len(env.commands)
        IN  /\ \/ IsPrefix(Methods, <<"Network.getAllCookies", "clickNode", "wait", "modal",
                                       "DOM.describeNode", "isVisible",
                                       "Network.getAllCookies">>)
               \/ IsPrefix(Methods, <<"Network.getAllCookies", "clickNode", "wait", "modal",
                                       "DOM.describeNode", "Network.getAllCookies">>)
            /\ "before_click" \in click_result.cookies => n >= 1
            /\ Armed => "before_click" \in click_result.cookies
            /\ n >= 2 => Armed
            /\ n >= 2 => env.commands[2].node_id
                            = Candidate.clickables[call.click.clickable_index + 1].node_id
            /\ click_result.is_page_modal # None => n >= 4
            /\ n >= 4 => /\ env.commands[4].geometry.x = Candidate.x
                         /\ env.commands[4].geometry.y = Candidate.y
                         /\ env.commands[4].geometry.width = Candidate.width
                         /\ env.commands[4].geometry.height = Candidate.height
            /\ n >= 5 => /\ click_result.is_page_modal # None
                         /\ env.commands[5].node_id = Candidate.node_id
            /\ click_result.cookie_notice_visible_after_click # None => n >= 5
            /\ env.answers = <<FALSE>>
                  => /\ click_result.cookie_notice_visible_after_click = "FALSE"
                     /\ "isVisible" \notin {Methods[i] : i \in DOMAIN Methods}
            /\ "after_click" \in click_result.cookies
                  => /\ click_result.cookie_notice_visible_after_click # None
                     /\ Methods[n] = "Network.getAllCookies"
                     /\ n >= 6

\* C21 witness: a click session did all the steps, the notice still visible
C21_Witness ==
    /\ Resolved
    /\ pc = "cleanup_script"
    /\ scanner.click_result.cookies = {"before_click", "after_click"}
    /\ scanner.click_result.cookie_notice_visible_after_click = "TRUE"
    /\ Len(env.commands) = 7
    /\ env.faults = 0

\* C22: if the root frame begins to load a new document after the click was
\* armed and dispatched and before the settle wait is over, is_page_modal and
\* the visibility check are called only once that document's load event has
\* fired or the load budget of the wait is used up.
C22_WaitsForNewDocument ==
    (call.fn = "do_click" /\ "modal" \in {Methods[i] : i \in DOMAIN Methods})
        => \A document \in env.settle_documents :
              \/ document \in env.loaded
              \/ scanner.waited >= MaxPolls

\* C22 witness: the modality was recomputed after the load event of a document
\* the click made the root frame load, within the load budget
C22_Witness ==
    /\ call.fn = "do_click"
    /\ scanner.click_result.is_page_modal # None
    /\ env.settle_documents # {}
    /\ env.settle_documents \subseteq env.loaded
    /\ scanner.waited < MaxPolls

\* the click result's new_pages holds this page
Recorded(url, root_frame, new_window) ==
    \E i \in DOMAIN scanner.click_result.new_pages :
        scanner.click_result.new_pages[i]
            = [url |-> url, root_frame |-> root_frame, new_window |-> new_window]

\* C23: new_pages is empty as long as the session is not armed; every
\* frameRequestedNavigation, navigatedWithinDocument and windowOpen event
\* handled once armed has its page in new_pages afterwards; new_pages never
\* holds the same entry twice.
C23_NewPagesWhileArmed ==
    /\ [](~Armed => scanner.click_result.new_pages = <<>>)
    /\ [](\A i, j \in DOMAIN scanner.click_result.new_pages :
            scanner.click_result.new_pages[i] = scanner.click_result.new_pages[j] => i = j)
    /\ [][\A url \in PageUrls :
            /\ \A frameId \in FrameIds :
                  (/\ Armed
                   /\ \/ _event_frame_requested_navigation(url, frameId)
                      \/ _event_navigated_within_document(url, frameId))
                     => Recorded(url, frameId = scanner.frameId, FALSE)'
            /\ (Armed /\ _event_window_open(url)) => Recorded(url, TRUE, TRUE)']_vars

\* C23 witness: two different events were recorded by an armed session, one
\* of them a window that was opened
C23_Witness ==
    /\ Armed
    /\ Len(scanner.click_result.new_pages) = 2
    /\ \E url \in PageUrls : Recorded(url, TRUE, TRUE)

----------------------------------------------------------------------------
(* is_node_visible: the search among the children *)

\* the node passes the checks of display, opacity and visibility
PassesStyleChecks(elem) ==
    /\ elem.style.display # "none"
    /\ ~(elem.style.opacity < 10)
    /\ elem.style.visibility = "visible"

\* zero box, centre outside of the viewport, or a centre whose hit-test does
\* not land on the node
Degenerate(elem) ==
    \/ elem.style.width = 0 /\ elem.style.height = 0
    \/ ~elem.style.centre_in_viewport
    \/ ~elem.style.hit

\* the paths of the elements below elem that pass for visible when every
\* degenerate element is replaced by its first visible descendant
RECURSIVE VisibleDescendants(_, _)
VisibleDescendants(elem, path) ==
    IF ~PassesStyleChecks(elem) THEN <<>>
    ELSE IF ~Degenerate(elem) THEN <<path>>
    ELSE LET found == [i \in DOMAIN elem.childNodes |->
                          VisibleDescendants(elem.childNodes[i], Append(path, i))]
             first == {i \in DOMAIN found : /\ found[i] # <<>>
                                             /\ \A j \in 1..(i - 1) : found[j] = <<>>}
         IN  IF first = {} THEN <<>> ELSE found[CHOOSE i \in first : TRUE]

\* C24: for a node that passes the style checks and is degenerate (zero box,
\* centre off screen, or hit-test of the centre missing the node) the children
\* are tested and the first visible descendant in depth-first order is the
\* visible node, the result being not visible only if there is none; the
\* children of a node that is not degenerate are not tested.
C24_DegenerateTestsChildren ==
    (VisibleReturned /\ PassesStyleChecks(call.node)) =>
        /\ Degenerate(call.node)
              => /\ ret[1].is_visible = (VisibleDescendants(call.node, <<>>) # <<>>)
                 /\ ret[1].visible_node = VisibleDescendants(call.node, <<>>)
        /\ ~Degenerate(call.node) => ret[1].examined = {<<>>}

----------------------------------------------------------------------------
(* find_clickables_in_node *)

\* the call of find_clickables_in_node has returned
CoverReturned == call.fn = "find_clickables_in_node" /\ ret # NoReturn

\* the matched elements that no other matched element contains
Outermost == {node \in DOMAIN call.nodes : call.nodes[node] = 0}

\* C25: find_clickables_in_node returns exactly the matched elements that are
\* not contained in another matched element, each of them once, whatever the
\* number of matches and the depth of the nesting.
C25_OutermostReturned ==
    CoverReturned =>
        /\ {ret[1][k] : k \in DOMAIN ret[1]} = Outermost
        /\ Len(ret[1]) = Cardinality(Outermost)

----------------------------------------------------------------------------
(* _find_fixed_parent *)

\* the call of _find_fixed_parent has returned
FixedReturned == call.fn = "_find_fixed_parent" /\ ret # NoReturn

\* the elements among the first n of the chain whose position is fixed
FixedAmong(n) == {i \in 1..n : call.chain[i] = "fixed"}

\* what _find_fixed_parent is to give when the nearest fixed element is
\* looked for among the first n elements of the chain
NearestFixed(n) ==
    IF FixedAmong(n) # {}
    THEN [has_fixed_parent |-> TRUE,
          fixed_parent |-> ToString(CHOOSE i \in FixedAmong(n) : \A j \in FixedAmong(n) : i <= j)]
    ELSE IF call.frameId = RootFrame
         THEN [has_fixed_parent |-> FALSE, fixed_parent |-> None]
         ELSE [has_fixed_parent |-> TRUE, fixed_parent |-> "iframe"]

----------------------------------------------------------------------------
(* The tab of an attempt *)

\* C27: once _scan_page has returned or raised, the tab it opened is closed,
\* also when scan raised outside of its try blocks (_setup, the call that
\* disables scripts, tab.stop).
C27_TabClosed ==
    (attempts # <<>> /\ pc \in {"scan_page", "done"}) => tab = "closed"

----------------------------------------------------------------------------
(* Failed results *)

\* C28: whatever the interleaving of the events with the scan thread, a
\* result that scan returns with failed true and the reason 'status code' or
\* 'loading failed' has no detection output: html is not set, cookie_notices
\* and cookies are empty.
C28_FailedWithoutDetection ==
    (/\ ScanReturned
     /\ result.failed
     /\ result.failed_reason \in {FAILED_REASON_STATUS_CODE, FAILED_REASON_LOADING})
        => /\ result.html = None
           /\ result.cookie_notices = {}
           /\ result.cookies = {}

----------------------------------------------------------------------------
(* The end of the wait for the load event *)

\* C29: _wait_for_load_event sets stopped_waiting and calls Page.stopLoading
\* only when the load event has not fired by the end of the wait: a session
\* whose load event fired while the wait was going on, be it during the last
\* poll, does not get stopped_waiting.
C29_StoppedOnlyIfNotLoaded ==
    [][(\/ ~result.stopped_waiting /\ result'.stopped_waiting
        \/ ~browser.stop_loading /\ browser'.stop_loading)
          => (~scanner.is_loaded \/ env.after_wait)]_vars

----------------------------------------------------------------------------
(* is_page_modal: the positions left *)

\* C30: whatever notice is_page_modal is given, at least one position is left
\* after the loop that removes the positions inside the notice's box, so that
\* testPositions[0] exists at the first hit-test and the function gives a
\* value.
C30_PositionLeft ==
    ModalReturned => /\ Len(ret[1].tested) >= 1
                     /\ ret[1].value # <<>>

\* C30 witness: a notice whose box holds every position of the viewport was
\* given, and positions were left
C30_Witness ==
    /\ ModalReturned
    /\ call.cookie_notice.given
    /\ \A i \in DOMAIN testPositions(call.viewport) :
          InBox(testPositions(call.viewport)[i], NoticeBox(call.viewport, call.cookie_notice))
    /\ Len(ret[1].tested) >= 1

====
